---- MODULE Spec2Model ----
(***************************************************************************)
(* A model of the in-memory editing engine of the todo list editor:        *)
(*   - the item codec        (src/src/class_todo.py: Todo)                 *)
(*   - the selection cursor  (src/src/class_cursor.py: Cursor)             *)
(*   - the snapshot history  (src/src/class_history.py: UndoRedo)          *)
(*   - the viewport window   (src/todo.py: make_printable_sublist)         *)
(*   - the section sort      (src/src/menus.py: _sort_by,                  *)
(*                            src/todo.py: flatten_todos)                  *)
(*   - the editing session   (src/todo.py: main, its key handlers, the     *)
(*                            storage file and the single-file Todo,       *)
(*                            Cursor and UndoRedo it works on)             *)
(*   - the message chunks    (src/src/menus.py: _chunk_message)            *)
(* Strings are sequences of one-character strings; Python's 0-based        *)
(* indices are kept in the state and shifted by one where a sequence is    *)
(* indexed.  Each component has its own specification over its own         *)
(* variables; the variables of the other components stay at their initial  *)
(* values.  The item mutations (SpecItem) and the indentation of decoded   *)
(* items (SpecDent) run on the codec's variables; the jumps of the cursor  *)
(* (SpecJump) and its extension from an anchor (SpecAnchor) on the         *)
(* cursor's.                                                               *)
(***************************************************************************)
EXTENDS Integers, Sequences, FiniteSets, TLC

VARIABLES
    \* item codec
    line,       \* the raw line handed to Todo(line)
    todo,       \* the Todo object's fields
    encoded,    \* the last value of repr(todo)
    cpc,        \* "input" | "decoded" | "raised" | "encoded" | "item" | "copied"
    \* cursor
    max_len,    \* len(todos) of the list the cursor ranges over
    cursor,     \* the Cursor object's fields: _start, _stop, _direction
    born,       \* the position the Cursor object was constructed at
    ups,        \* multiselect_up calls since construction, -1 once another call was made
    lastops,    \* the last (at most two) calls made on the cursor
    before,     \* the cursor's fields before the calls in lastops
    lastarg,    \* the target or the keys the last call was given
    \* snapshot history
    history,    \* UndoRedo.history: a list of Restorable
    index,      \* UndoRedo.index
    returned,   \* what the last undo()/redo() returned
    raised,     \* the exception the last call raised, "" if none
    lastcall,   \* the last call made on the UndoRedo object
    undone,     \* the history positions stepped back over by undo() before the last add()
    recorded,   \* the arguments of each add(), in the order of history
    \* viewport
    height,     \* make_printable_sublist's argument height
    lst,        \* its argument lst
    wcursor,    \* its argument cursor
    distance,   \* its argument distance (-1: the default)
    printable,  \* the pair it returned: the sublist and the adjusted cursor
    wpc,        \* "input" | "done",
    \* sort
    todos,      \* the list handed to the sort
    method,     \* the sorting method chosen in the menu
    selected,   \* int(selected): the selected index handed to the sort
    once,       \* the list and index the sort returned
    twice,      \* the list and index returned by sorting the result again
    spc,        \* "input", then "menus1", "menus2" (menus.py) or "todo1", "todo2" (todo.py)
    \* the session of src/todo.py
    file,        \* the text of the storage file FILENAME
    mtodos,      \* main's list todos
    mselected,   \* main's Cursor selected: positions and direction
    mhistory,    \* main's UndoRedo: history, a list of (function, copied arguments)
    mindex,      \* main's UndoRedo: index
    copied_todo, \* main's copied_todo
    pyperclip,   \* whether the module pyperclip can be imported
    clipboard,   \* the text on the system clipboard
    mstatus,     \* "running", "quit", or the exception that ended the program
    mkeys,       \* the last (at most two) keys handled, "external" for an outside write
    mbefore,     \* the lines and cursor positions each of them found
    mtyped,      \* what was typed at the prompt of the last key
    check,       \* the last call of is_file_externally_updated by the loop: the text
                 \* of the file, the text and lines of update_file for the list in
                 \* memory, and the value returned (on which the list is reloaded)
    turns,       \* the turns of the loop and outside writes so far
    \* the generator _chunk_message
    message,    \* its argument message
    width,      \* its argument width
    left,       \* its local left
    right,      \* its local right
    chunk,      \* the chunk it yielded last
    kpc         \* "loop" | "done" | "raised"

codecVars  == <<line, todo, encoded, cpc>>
cursorVars == <<max_len, cursor, born, ups, lastops, before, lastarg>>
histVars   == <<history, index, returned, raised, lastcall, undone, recorded>>
winVars    == <<height, lst, wcursor, distance, printable, wpc>>
sortVars   == <<todos, method, selected, once, twice, spc>>
mainVars   == <<file, mtodos, mselected, mhistory, mindex, copied_todo, pyperclip,
                clipboard, mstatus, mkeys, mbefore, mtyped, check, turns>>
chunkVars  == <<message, width, left, right, chunk, kpc>>
vars       == <<codecVars, cursorVars, histVars, winVars, sortVars, mainVars,
                chunkVars>>

----------------------------------------------------------------------------
(* Bounds of the model *)

\* longest raw line drawn as input of the codec
MaxLineLen == 4

\* longest list a cursor ranges over
MaxLen == 5

\* how far below index 0 a cursor is followed
MaxBelow == 2

\* longest history recorded
MaxHistory == 4

\* longest list handed to the sort
MaxSortLen == 4

\* tallest display handed to the viewport
MaxHeight == 8

\* longest list handed to the viewport
MaxItems == 10

\* most lines of the storage file a session starts from
MaxFileLines == 2

\* longest list of a session
MaxTodos == 3

\* most entries of the history of a session
MaxUndos == 2

\* deepest indent of an item of a session
MaxIndent == 4

\* most turns of the loop of a session
MaxTurns == 3

\* longest message cut into chunks
MaxMessage == 4

\* widest line the chunks are cut for
MaxWidth == 3

----------------------------------------------------------------------------
(* Characters and strings *)

\* the indent unit
INDENT == 2

Digits == {"0", "1", "2", "3", "4", "5", "6", "7", "8", "9"}

\* int(c) for a digit character c
DigitValue(c) ==
    CASE c = "0" -> 0 [] c = "1" -> 1 [] c = "2" -> 2 [] c = "3" -> 3
      [] c = "4" -> 4 [] c = "5" -> 5 [] c = "6" -> 6 [] c = "7" -> 7
      [] c = "8" -> 8 [] c = "9" -> 9

\* str(n) for 0 <= n <= 9
DigitChar(n) ==
    CASE n = 0 -> "0" [] n = 1 -> "1" [] n = 2 -> "2" [] n = 3 -> "3"
      [] n = 4 -> "4" [] n = 5 -> "5" [] n = 6 -> "6" [] n = 7 -> "7"
      [] n = 8 -> "8" [] n = 9 -> "9"

\* n * " "
Spaces(n) == [i \in 1..n |-> " "]

Max(a, b) == IF a >= b THEN a ELSE b

Min(a, b) == IF a <= b THEN a ELSE b

\* s[k:] with a 0-based k
From(s, k) == SubSeq(s, k + 1, Len(s))

\* len(text) - len(text.lstrip()): the number of leading blanks
RECURSIVE LeadingSpaces(_)
LeadingSpaces(text) ==
    IF text # <<>> /\ Head(text) = " "
    THEN 1 + LeadingSpaces(Tail(text))
    ELSE 0

\* all strings over alphabet of length at most n
RECURSIVE StringsUpTo(_, _)
StringsUpTo(alphabet, n) ==
    IF n = 0 THEN {<<>>}
    ELSE LET shorter == StringsUpTo(alphabet, n - 1)
         IN  shorter \cup {Append(s, c) : s \in shorter, c \in alphabet}

----------------------------------------------------------------------------
(* Item codec: class Todo *)

\* Color.WHITE, the default colour
WHITE == 7

\* the values of enum Color
Colors == 1..7

\* BoxChar.__repr__
BoxCharRepr(box_char) ==
    CASE box_char = "PLUS" -> <<"+">>
      [] box_char = "MINUS" -> <<"-">>
      [] box_char = "NONE" -> <<>>

\* BoxChar.from_str
BoxCharFromStr(c) == IF c = "-" THEN "MINUS" ELSE "PLUS"

\* Todo._init_box_char: <<box_char, pointer>>
InitBoxChar(text, pointer) ==
    IF Len(text) > pointer /\ text[pointer + 1] \in {"-", "+"}
    THEN <<BoxCharFromStr(text[pointer + 1]), pointer + 1>>
    ELSE <<"NONE", pointer>>

\* Todo._init_color: Color(int(c)) raises ValueError outside 1..7
InitColor(text, pointer) ==
    IF /\ Len(text) > pointer + 1
       /\ text[pointer + 1] \in Digits
       /\ text[pointer + 2] = " "
    THEN IF DigitValue(text[pointer + 1]) \in Colors
         THEN [raises |-> FALSE, color |-> DigitValue(text[pointer + 1]),
               pointer |-> pointer + 2]
         ELSE [raises |-> TRUE, color |-> WHITE, pointer |-> pointer]
    ELSE [raises |-> FALSE, color |-> WHITE, pointer |-> pointer]

\* Todo._init_attrs
InitAttrs(text, indent_level) ==
    LET box   == InitBoxChar(text, indent_level)
        col   == InitColor(text, box[2])
        p     == IF Len(text) > col.pointer /\ text[col.pointer + 1] = " "
                 THEN col.pointer + 1
                 ELSE col.pointer
    IN  [raises |-> col.raises, box_char |-> box[1], color |-> col.color,
         display_text |-> From(text, p)]

\* Todo.__init__ before call_init runs
BlankTodo ==
    [text |-> <<>>, indent_level |-> 0, box_char |-> "NONE", color |-> WHITE,
     display_text |-> <<>>]

\* Todo.call_init: the fields after Todo(text), and whether it raised
CallInit(text) ==
    IF text = <<>>
    THEN [raises |-> FALSE,
          todo |-> [text |-> text, indent_level |-> 0, box_char |-> "MINUS",
                    color |-> WHITE, display_text |-> <<>>]]
    ELSE LET attrs == InitAttrs(text, LeadingSpaces(text))
         IN  [raises |-> attrs.raises,
              todo |-> [text |-> text,
                        indent_level |-> LeadingSpaces(text),
                        box_char |-> attrs.box_char,
                        color |-> attrs.color,
                        display_text |-> attrs.display_text]]

\* Todo.is_empty
IsEmpty(t) == t.display_text = <<>>

\* Todo.is_toggled
IsToggled(t) == t.box_char = "PLUS"

\* Todo.__repr__
Repr(t) ==
    LET boxed == t.box_char # "NONE" /\ ~IsEmpty(t)
    IN  Spaces(t.indent_level)
        \o (IF boxed THEN BoxCharRepr(t.box_char) ELSE <<>>)
        \o (IF t.color # WHITE THEN <<DigitChar(t.color)>> ELSE <<>>)
        \o (IF boxed \/ t.color # WHITE THEN <<" ">> ELSE <<>>)
        \o t.display_text

----------------------------------------------------------------------------
(* Selection cursor: class Cursor.  A cursor is its fields _start, _stop   *)
(* and _direction; every method is the function from the fields before the *)
(* call to the fields after it.                                            *)

\* Cursor.__init__
NewCursor(start) == [start |-> start, stop |-> start + 1, direction |-> "NONE"]

\* Cursor.__len__
CursorLen(c) == c.stop - c.start

\* Cursor.get_first
GetFirst(c) == c.start

\* Cursor.get_last
GetLast(c) == c.stop - 1

\* Cursor._raise_start
RaiseStart(c, amount) == [c EXCEPT !.start = c.start + amount]

\* Cursor._raise_stop
RaiseStop(c, amount) == [c EXCEPT !.stop = c.stop + amount]

\* Cursor.set_to
SetTo(c, position) == [c EXCEPT !.start = position, !.stop = position + 1]

\* single_up without its stop at the first index
SingleUp_NoStop(c, n) ==
    IF CursorLen(c) = n THEN SetTo(c, 0)
    ELSE SetTo(c, GetFirst(c) - 1)

\* Cursor.single_up
SingleUp(c, n) ==
    IF CursorLen(c) = n THEN SetTo(c, 0)
    ELSE IF GetFirst(c) = 0 THEN c
    ELSE SetTo(c, GetFirst(c) - 1)

\* Cursor.slide_up
SlideUp(c) ==
    IF GetFirst(c) = 0 THEN c
    ELSE RaiseStop(RaiseStart(c, -1), -1)

\* Cursor.single_down
SingleDown(c, n) ==
    LET c1 == IF CursorLen(c) = n THEN SetTo(c, GetFirst(c)) ELSE c
    IN  IF GetLast(c1) >= n - 1 THEN c1
        ELSE SetTo(c1, GetLast(c1) + 1)

\* Cursor.slide_down
SlideDown(c, n) ==
    IF GetLast(c) >= n - 1 THEN c
    ELSE RaiseStop(RaiseStart(c, 1), 1)

\* Cursor._select_next
SelectNext(c) == RaiseStop(c, 1)

\* _deselect_next retracting the wrong end of the selection
DeselectNext_WrongEnd(c) == IF CursorLen(c) > 1 THEN RaiseStart(c, 1) ELSE c

\* Cursor._deselect_next
DeselectNext(c) == IF CursorLen(c) > 1 THEN RaiseStop(c, -1) ELSE c

\* _deselect_prev that gives up the last position instead of the first
DeselectPrev_WrongEnd(c) == IF CursorLen(c) > 1 THEN RaiseStop(c, -1) ELSE c

\* Cursor._deselect_prev
DeselectPrev(c) == IF CursorLen(c) > 1 THEN RaiseStart(c, 1) ELSE c

\* Cursor._select_prev
SelectPrev(c) == RaiseStart(c, -1)

\* Cursor.get_deletable
GetDeletable(c) == [i \in 1..CursorLen(c) |-> GetFirst(c)]

\* multiselect_down extending without recording its direction
MultiselectDown_KeepsDirection(c, n) ==
    IF GetLast(c) >= n - 1 THEN c
    ELSE IF CursorLen(c) = 1 \/ c.direction = "DOWN"
    THEN SelectNext(c)
    ELSE DeselectPrev(c)

\* Cursor.multiselect_down
MultiselectDown(c, n) ==
    IF GetLast(c) >= n - 1 THEN c
    ELSE IF CursorLen(c) = 1 \/ c.direction = "DOWN"
    THEN [SelectNext(c) EXCEPT !.direction = "DOWN"]
    ELSE DeselectPrev(c)

\* multiselect_up extending only a selection that already points up
MultiselectUp_NeedsDirection(c) ==
    IF GetFirst(c) = 0 /\ c.direction = "UP" THEN c
    ELSE IF c.direction = "UP"
    THEN [SelectPrev(c) EXCEPT !.direction = "UP"]
    ELSE DeselectNext(c)

\* Cursor.multiselect_up
MultiselectUp(c) ==
    IF GetFirst(c) = 0 /\ c.direction = "UP" THEN c
    ELSE IF CursorLen(c) = 1 \/ c.direction = "UP"
    THEN [SelectPrev(c) EXCEPT !.direction = "UP"]
    ELSE DeselectNext(c)

\* k calls of multiselect_up
RECURSIVE MultiselectUpTimes(_, _)
MultiselectUpTimes(c, k) ==
    IF k <= 0 THEN c ELSE MultiselectUpTimes(MultiselectUp(c), k - 1)

\* k calls of multiselect_down
RECURSIVE MultiselectDownTimes(_, _, _)
MultiselectDownTimes(c, n, k) ==
    IF k <= 0 THEN c ELSE MultiselectDownTimes(MultiselectDown(c, n), n, k - 1)

\* Cursor.multiselect_top: one call per element of range(get_first(), 0, -1)
MultiselectTop(c) == MultiselectUpTimes(c, GetFirst(c))

\* Cursor.multiselect_bottom: one call per element of range(get_last() - 1, max_len)
MultiselectBottom(c, n) == MultiselectDownTimes(c, n, n - (GetLast(c) - 1))

\* _multiselect_to stepping down whatever the target
MultiselectTo_AlwaysDown(c, position, n) ==
    MultiselectDownTimes(c, n, position - GetFirst(c))

\* Cursor._multiselect_to: one call per element of
\* range(get_first(), position, direction)
MultiselectTo(c, position, n) ==
    IF position < GetFirst(c)
    THEN MultiselectUpTimes(c, GetFirst(c) - position)
    ELSE MultiselectDownTimes(c, n, position - GetFirst(c))

\* Cursor.multiselect_all
MultiselectAll(c, n) == [c EXCEPT !.start = 0, !.stop = n]

\* int(total) for a string of digits
RECURSIVE IntOf(_)
IntOf(total) ==
    IF total = <<>> THEN 0
    ELSE 10 * IntOf(SubSeq(total, 1, Len(total) - 1))
         + DigitValue(total[Len(total)])

\* relative_to moving down on the key k as on the key j
RelativeTo_KeyKDown(c, total, escape, key, single, n) ==
    IF key = "interrupt" \/ single = escape \/ key \notin {"k", "j", "g", "G"}
    THEN c
    ELSE LET position == IF key \in {"k", "j"} THEN GetFirst(c) + IntOf(total)
                         ELSE IntOf(total) - 1
         IN  IF single
             THEN SetTo(c, Min(Max(position, 0), n - 1))
             ELSE MultiselectTo(c, position, n)

\* Cursor.relative_to(stdscr, first_digit, max_len, single): total is
\* first_digit followed by the digits typed; key is the key that ends the
\* loop, "interrupt" for ctrl+c and "x" for a key with no branch; escape
\* tells whether it came as alt+key (escape first).  With single the
\* operation is _set_to_clamp, set_to(clamp(position, 0, max_len)), and a
\* key that comes after escape is not read; without single it is
\* _multiselect_to, and a key that is not escape ends the loop.
RelativeTo(c, total, escape, key, single, n) ==
    IF key = "interrupt" \/ single = escape \/ key \notin {"k", "j", "g", "G"}
    THEN c
    ELSE LET position == CASE key = "k" -> GetFirst(c) - IntOf(total)
                           [] key = "j" -> GetFirst(c) + IntOf(total)
                           [] OTHER -> IntOf(total) - 1
         IN  IF single
             THEN SetTo(c, Min(Max(position, 0), n - 1))
             ELSE MultiselectTo(c, position, n)

----------------------------------------------------------------------------
(* Snapshot history: class Restorable, class UndoRedo (class_history.py) *)

\* the separator " |SEP|" of Restorable
SEP == <<" ", "|", "S", "E", "P", "|">>

\* sep.join(strings)
RECURSIVE Join(_, _)
Join(sep, strings) ==
    IF strings = <<>> THEN <<>>
    ELSE IF Len(strings) = 1 THEN strings[1]
    ELSE strings[1] \o sep \o Join(sep, Tail(strings))

\* the positions of s at which sep starts
Occurrences(s, sep) ==
    {i \in 1..(Len(s) - Len(sep) + 1) : SubSeq(s, i, i + Len(sep) - 1) = sep}

\* s.split(sep)
RECURSIVE Split(_, _)
Split(s, sep) ==
    IF Occurrences(s, sep) = {} THEN <<s>>
    ELSE LET i == CHOOSE j \in Occurrences(s, sep) :
                      \A k \in Occurrences(s, sep) : j <= k
         IN  <<SubSeq(s, 1, i - 1)>> \o Split(From(s, i + Len(sep) - 1), sep)

\* Restorable.__init__
Restorable(items, sel) ==
    [stored |-> Join(SEP, [i \in 1..Len(items) |-> items[i].text]),
     selected |-> sel]

\* Restorable.get: the items rebuilt with Todo(line), and the selected index
RestorableGet(r) ==
    LET lines == Split(r.stored, SEP)
    IN  [todos |-> [i \in 1..Len(lines) |-> CallInit(lines[i]).todo],
         selected |-> r.selected]

\* whether history[i] raises IndexError, for a Python index i
IndexError(h, i) == ~(-Len(h) <= i /\ i < Len(h))

\* history[i] for a Python index i that does not raise
Item(h, i) == IF i >= 0 THEN h[i + 1] ELSE h[Len(h) + i + 1]

\* add() leaving index where it was
HistoryAdd_KeepsIndex(h, idx, items, sel) ==
    [history |-> Append(h, Restorable(items, sel)), index |-> idx]

\* UndoRedo.add: the fields history and index after the call
HistoryAdd(h, idx, items, sel) ==
    [history |-> Append(h, Restorable(items, sel)), index |-> Len(h)]

\* undo() stepping back from the earliest entry too
UndoIndex_BelowZero(idx) == IF idx >= 0 THEN idx - 1 ELSE idx

\* UndoRedo.undo: the index after the call
UndoIndex(idx) == IF idx > 0 THEN idx - 1 ELSE idx

\* UndoRedo.redo: the index after the call
RedoIndex(h, idx) == IF idx < Len(h) - 1 THEN idx + 1 ELSE idx

----------------------------------------------------------------------------
(* Viewport: make_printable_sublist *)

\* l[a:b] for any integers a and b
PySlice(l, a, b) ==
    LET first == IF a < 0 THEN Max(Len(l) + a, 0) ELSE Min(a, Len(l))
        last  == IF b < 0 THEN Max(Len(l) + b, 0) ELSE Min(b, Len(l))
    IN  IF first < last THEN SubSeq(l, first + 1, last) ELSE <<>>

\* l[start:end] for 0 <= start and end <= len(l)
Slice(l, start, end) == SubSeq(l, start + 1, end)

\* make_printable_sublist that never pins the window to the end of the list
MakePrintableSublist_NoPin(h, l, c, d) ==
    IF Len(l) < h THEN [lst |-> l, cursor |-> c]
    ELSE LET dist  == IF d < 0 THEN (h * 3) \div 7 ELSE d
             start == Max(0, c - dist)
             end   == Min(Len(l), start + h)
         IN  [lst |-> Slice(l, start, end), cursor |-> c - start]

\* make_printable_sublist that pins the window only once the slice is two
\* elements short
MakePrintableSublist_LatePin(h, l, c, d) ==
    IF Len(l) < h THEN [lst |-> l, cursor |-> c]
    ELSE LET dist   == IF d < 0 THEN (h * 3) \div 7 ELSE d
             start0 == Max(0, c - dist)
             end0   == Min(Len(l), start0 + h)
             pin    == end0 - start0 < h - 1
             start  == IF pin THEN Len(l) - h ELSE start0
             end    == IF pin THEN Len(l) ELSE end0
         IN  [lst |-> Slice(l, start, end), cursor |-> c - start]

\* make_printable_sublist that adjusts the cursor by the start it had before
\* the window was pinned
MakePrintableSublist_StaleStart(h, l, c, d) ==
    IF Len(l) < h THEN [lst |-> l, cursor |-> c]
    ELSE LET dist   == IF d < 0 THEN (h * 3) \div 7 ELSE d
             start0 == Max(0, c - dist)
             end0   == Min(Len(l), start0 + h)
             pin    == end0 - start0 < h
             start  == IF pin THEN Len(l) - h ELSE start0
             end    == IF pin THEN Len(l) ELSE end0
         IN  [lst |-> Slice(l, start, end), cursor |-> c - start0]

\* make_printable_sublist(height, lst, cursor, distance)
MakePrintableSublist(h, l, c, d) ==
    IF Len(l) < h THEN [lst |-> l, cursor |-> c]
    ELSE LET dist   == IF d < 0 THEN (h * 3) \div 7 ELSE d
             start0 == Max(0, c - dist)
             end0   == Min(Len(l), start0 + h)
             pin    == end0 - start0 < h
             start  == IF pin THEN Len(l) - h ELSE start0
             end    == IF pin THEN Len(l) ELSE end0
         IN  [lst |-> Slice(l, start, end), cursor |-> c - start]

----------------------------------------------------------------------------
(* Sort: _get_sorting_methods, _get_indented_sections, _sort_by (menus.py) *)
(* and sorting_methods, get_indented_sections, flatten_todos (todo.py).    *)
(* A list item carries, besides the fields of its Todo, the identity id of *)
(* the object: Todo defines no __eq__, so == and list.index compare        *)
(* objects by identity.                                                    *)

\* ord(c) for the characters of the model
Ord(c) ==
    CASE c = " " -> 32 [] c = "+" -> 43 [] c = "-" -> 45 [] c = "." -> 46
      [] c = "0" -> 48 [] c = "1" -> 49 [] c = "2" -> 50 [] c = "3" -> 51
      [] c = "4" -> 52 [] c = "5" -> 53 [] c = "6" -> 54 [] c = "7" -> 55
      [] c = "8" -> 56 [] c = "9" -> 57
      [] c = "A" -> 65 [] c = "B" -> 66 [] c = "C" -> 67 [] c = "D" -> 68
      [] c = "E" -> 69 [] c = "G" -> 71 [] c = "H" -> 72 [] c = "I" -> 73
      [] c = "L" -> 76 [] c = "M" -> 77 [] c = "N" -> 78 [] c = "O" -> 79
      [] c = "P" -> 80 [] c = "R" -> 82 [] c = "S" -> 83 [] c = "T" -> 84
      [] c = "U" -> 85 [] c = "W" -> 87 [] c = "Y" -> 89
      [] c = "a" -> 97 [] c = "b" -> 98 [] c = "c" -> 99
      [] c = "l" -> 108 [] c = "o" -> 111 [] c = "r" -> 114
      [] c = "|" -> 124

\* a < b for Python strings
RECURSIVE StrLess(_, _)
StrLess(a, b) ==
    IF b = <<>> THEN FALSE
    ELSE IF a = <<>> THEN TRUE
    ELSE IF Head(a) = Head(b) THEN StrLess(Tail(a), Tail(b))
    ELSE Ord(Head(a)) < Ord(Head(b))

\* str(color) for a member of enum Color, which defines no __str__
ColorStr(color) ==
    <<"C", "o", "l", "o", "r", ".">> \o
    CASE color = 1 -> <<"R", "E", "D">>
      [] color = 2 -> <<"G", "R", "E", "E", "N">>
      [] color = 3 -> <<"Y", "E", "L", "L", "O", "W">>
      [] color = 4 -> <<"B", "L", "U", "E">>
      [] color = 5 -> <<"M", "A", "G", "E", "N", "T", "A">>
      [] color = 6 -> <<"C", "Y", "A", "N">>
      [] color = 7 -> <<"W", "H", "I", "T", "E">>

\* _get_sorting_methods()[method] applied to a section (menus.py)
MenusKey(m, section) ==
    CASE m = "Alphabetical" -> section[1].display_text
      [] m = "Completed" -> IF IsToggled(section[1]) THEN <<"1">> ELSE <<"0">>
      [] m = "Color" -> ColorStr(section[1].color)

\* key(a) < key(b) for two sections, menus.py
MenusLess(m, a, b) == StrLess(MenusKey(m, a), MenusKey(m, b))

\* sorting_methods()[method] applied to two sections, key(a) < key(b) (todo.py)
TodoLess(m, a, b) ==
    CASE m = "Alphabetical" -> StrLess(a[1].display_text, b[1].display_text)
      [] m = "Color" -> a[1].color < b[1].color

\* _get_indented_sections / get_indented_sections: the loop from item i on,
\* with the sections closed so far and the open section
RECURSIVE SectionsFrom(_, _, _, _)
SectionsFrom(items, i, sections, section) ==
    IF i > Len(items) THEN Append(sections, section)
    ELSE IF items[i].indent_level > 0
    THEN SectionsFrom(items, i + 1, sections, Append(section, items[i]))
    ELSE SectionsFrom(items, i + 1,
                      IF Len(section) > 0 THEN Append(sections, section)
                      ELSE sections,
                      <<items[i]>>)

\* _get_indented_sections(todos) / get_indented_sections(todos)
GetIndentedSections(items) == SectionsFrom(items, 1, <<>>, <<>>)

\* key(a) < key(b) under the sorting methods of module mod
SectionLess(mod, m, a, b) ==
    IF mod = "menus" THEN MenusLess(m, a, b) ELSE TodoLess(m, a, b)

\* a sort in descending order of the key
Sorted_Descending(mod, m, s) ==
    LET rank(i) ==
            Cardinality({j \in 1..Len(s) :
                \/ SectionLess(mod, m, s[i], s[j])
                \/ ~SectionLess(mod, m, s[j], s[i]) /\ j < i}) + 1
    IN  [k \in 1..Len(s) |-> s[CHOOSE i \in 1..Len(s) : rank(i) = k]]

\* a sort that reverses the sections it ties
Sorted_TiesReversed(mod, m, s) ==
    LET rank(i) ==
            Cardinality({j \in 1..Len(s) :
                \/ SectionLess(mod, m, s[j], s[i])
                \/ ~SectionLess(mod, m, s[i], s[j]) /\ j > i}) + 1
    IN  [k \in 1..Len(s) |-> s[CHOOSE i \in 1..Len(s) : rank(i) = k]]

\* sorted(s, key=...): ascending by key, and Python's sort is stable, so
\* s[i] lands behind the elements with a smaller key and behind the
\* elements before it with the same key
Sorted(mod, m, s) ==
    LET rank(i) ==
            Cardinality({j \in 1..Len(s) :
                \/ SectionLess(mod, m, s[j], s[i])
                \/ ~SectionLess(mod, m, s[i], s[j]) /\ j < i}) + 1
    IN  [k \in 1..Len(s) |-> s[CHOOSE i \in 1..Len(s) : rank(i) = k]]

\* the items of the sections one after another
RECURSIVE Flatten(_)
Flatten(sections) ==
    IF sections = <<>> THEN <<>>
    ELSE Head(sections) \o Flatten(Tail(sections))

\* list.index(x) comparing the items by their fields instead of by identity
IndexOf_ByContent(items, x) ==
    (CHOOSE i \in 1..Len(items) :
        /\ [items[i] EXCEPT !.id = 0] = [x EXCEPT !.id = 0]
        /\ \A j \in 1..(i - 1) : [items[j] EXCEPT !.id = 0] # [x EXCEPT !.id = 0]) - 1

\* list.index(x): the first position (0-based) holding the object x
IndexOf(items, x) ==
    (CHOOSE i \in 1..Len(items) :
        /\ items[i].id = x.id
        /\ \A j \in 1..(i - 1) : items[j].id # x.id) - 1

\* _sort_by(method, todos, selected)  (menus.py)
SortBy(m, items, sel) ==
    LET selected_todo == items[sel + 1]
        sorted_todos ==
            Flatten(Sorted("menus", m, GetIndentedSections(items)))
    IN  [todos |-> sorted_todos, cursor |-> IndexOf(sorted_todos, selected_todo)]

\* flatten_todos(todos, selected, sorting_methods()[method])  (todo.py)
FlattenTodos(m, items, sel) ==
    LET selected_todo == items[sel + 1]
        sorted_todos ==
            Flatten(Sorted("todo", m, GetIndentedSections(items)))
    IN  [todos |-> sorted_todos, cursor |-> IndexOf(sorted_todos, selected_todo)]

----------------------------------------------------------------------------
(* The single-file program src/todo.py: its own class Todo, class Cursor   *)
(* and class UndoRedo, the storage file and the commands of the main loop. *)
(* Definitions that share a name with the classes of src/src carry the     *)
(* prefix Td.  box_char is "-", "+", "" or "NONE" for None.                *)

NL == "\n"

\* list.insert(i, x)
ListInsert(l, i, x) ==
    LET j == IF i < 0 THEN Max(Len(l) + i, 0) ELSE Min(i, Len(l))
    IN  SubSeq(l, 1, j) \o <<x>> \o SubSeq(l, j + 1, Len(l))

\* list.pop(i) for an index that does not raise: the list left
ListPop(l, i) ==
    LET j == IF i < 0 THEN Len(l) + i ELSE i
    IN  SubSeq(l, 1, j) \o SubSeq(l, j + 2, Len(l))

\* l[i] = x for an index that does not raise
ListSet(l, i, x) ==
    LET j == IF i < 0 THEN Len(l) + i ELSE i
    IN  [l EXCEPT ![j + 1] = x]

\* Todo._init_box_char (todo.py): <<box_char, pointer>>
TdInitBoxChar(text, pointer) ==
    IF text[pointer + 1] \in {"-", "+"}
    THEN <<text[pointer + 1], pointer + 1>>
    ELSE <<"NONE", pointer>>

\* Todo._init_color (todo.py): <<color, pointer>>
TdInitColor(text, pointer) ==
    IF text[pointer + 1] \in Digits
    THEN <<DigitValue(text[pointer + 1]), pointer + 2>>
    ELSE <<7, pointer>>

\* Todo.call_init (todo.py): text[pointer] raises IndexError behind the end
TdCallInit(text) ==
    LET indent == LeadingSpaces(text)
        blank  == [text |-> text, indent_level |-> indent, box_char |-> "-",
                   color |-> 7, display_text |-> <<>>]
        failed == [raises |-> "IndexError", todo |-> blank]
    IN  IF text = <<>> THEN [raises |-> "", todo |-> blank]
        ELSE IF indent >= Len(text) THEN failed
        ELSE LET box == TdInitBoxChar(text, indent)
             IN  IF box[2] >= Len(text) THEN failed
                 ELSE LET col == TdInitColor(text, box[2])
                      IN  IF col[2] >= Len(text) THEN failed
                          ELSE LET q == IF text[col[2] + 1] = " "
                                        THEN col[2] + 1
                                        ELSE col[2]
                               IN  [raises |-> "",
                                    todo |-> [text |-> text,
                                              indent_level |-> indent,
                                              box_char |-> box[1],
                                              color |-> col[1],
                                              display_text |-> From(text, q)]]

\* Todo.__repr__ (todo.py)
TdRepr(t) ==
    Spaces(t.indent_level)
    \o (IF t.box_char \in {"-", "+"} THEN <<t.box_char>> ELSE <<>>)
    \o (IF t.color # 7 THEN <<DigitChar(t.color)>> ELSE <<>>)
    \o (IF t.box_char # "NONE" \/ t.color # 7 THEN <<" ">> ELSE <<>>)
    \o t.display_text

\* the assignment self.text = repr(self)
TdRefresh(t) == [t EXCEPT !.text = TdRepr(t)]

\* Todo.set_display_text (todo.py)
TdSetDisplayText(t, display_text) ==
    TdRefresh([t EXCEPT !.display_text = display_text])

\* Todo.has_box (todo.py)
TdHasBox(t) == t.box_char # "NONE"

\* Todo.is_empty (todo.py)
TdIsEmpty(t) == t.display_text = <<>>

\* Todo.toggle (todo.py): the dict has the keys "+", "-" and None
TdToggle(t) ==
    IF t.box_char = "" THEN [raises |-> "KeyError", todo |-> t]
    ELSE [raises |-> "",
          todo |-> TdRefresh([t EXCEPT !.box_char =
                       CASE t.box_char = "+" -> "-"
                         [] t.box_char = "-" -> "+"
                         [] t.box_char = "NONE" -> ""])]

\* Todo.indent (todo.py)
TdIndent(t) == TdRefresh([t EXCEPT !.indent_level = t.indent_level + INDENT])

\* Todo.dedent (todo.py)
TdDedent(t) ==
    IF t.indent_level >= INDENT
    THEN TdRefresh([t EXCEPT !.indent_level = t.indent_level - INDENT])
    ELSE t

\* the lines repr() gives for the items of a list
Lines(items) == [i \in 1..Len(items) |-> TdRepr(items[i])]

\* re_match(r"^( *)?([+-])\d? .*$", line)
MatchesTodo(l) ==
    LET k == LeadingSpaces(l)
    IN  /\ \A i \in 1..Len(l) : l[i] # NL
        /\ Len(l) > k
        /\ l[k + 1] \in {"+", "-"}
        /\ \/ Len(l) > k + 1 /\ l[k + 2] = " "
           \/ Len(l) > k + 2 /\ l[k + 2] \in Digits /\ l[k + 3] = " "

\* re_match(r"^( *\d )?.*$", line)
MatchesNote(l) == \A i \in 1..Len(l) : l[i] # NL

\* validate_file: one item per line of raw_data, or the exception raised
ValidateFile(raw_data) ==
    IF Len(raw_data) = 0 THEN [raises |-> "", todos |-> <<>>]
    ELSE LET lines == Split(raw_data, <<NL>>)
             made  == [i \in 1..Len(lines) |->
                          IF Len(lines[i]) = 0 THEN TdCallInit(<<>>)
                          ELSE IF MatchesTodo(lines[i]) \/ MatchesNote(lines[i])
                          THEN TdCallInit(lines[i])
                          ELSE [raises |-> "ValueError",
                                todo |-> TdCallInit(<<>>).todo]]
             bad   == {i \in 1..Len(lines) : made[i].raises # ""}
         IN  IF bad # {}
             THEN [raises |-> made[CHOOSE i \in bad : \A j \in bad : i <= j].raises,
                   todos |-> <<>>]
             ELSE [raises |-> "",
                   todos |-> [i \in 1..Len(lines) |-> made[i].todo]]

\* update_file: the text written, "\n".join(map(repr, lst))
UpdateFile(items) == Join(<<NL>>, Lines(items))

\* loaded == todos for the list validate_file has just built: class Todo
\* defines no __eq__, so two items are equal when they are one object, and
\* an object just built is no object of todos
SameObjects(loaded, items) ==
    /\ Len(loaded) = Len(items)
    /\ \A i \in 1..Len(loaded) : FALSE

\* is_file_externally_updated(filename, todos) for a file that validates
IsFileExternallyUpdated(text, items) ==
    ~SameObjects(ValidateFile(text).todos, items)

\* clamp (todo.py)
Clamp(counter, minimum, maximum) == Min(Max(counter, minimum), maximum - 1)

\* cursor_up
CursorUp(sel, len_todos) == Clamp(sel - 1, 0, len_todos)

\* cursor_down
CursorDown(sel, len_todos) == Clamp(sel + 1, 0, len_todos)

\* swap_todos
SwapTodos(items, idx1, idx2) ==
    IF Min(idx1, idx2) >= 0 /\ Max(idx1, idx2) < Len(items)
    THEN [items EXCEPT ![idx1 + 1] = items[idx2 + 1], ![idx2 + 1] = items[idx1 + 1]]
    ELSE items

\* max(positions) and min(positions)
SeqMax(positions) ==
    CHOOSE x \in {positions[i] : i \in 1..Len(positions)} :
        \A i \in 1..Len(positions) : positions[i] <= x

SeqMin(positions) ==
    CHOOSE x \in {positions[i] : i \in 1..Len(positions)} :
        \A i \in 1..Len(positions) : x <= positions[i]

\* positions.sort()
SortedInts(positions) ==
    LET rank(i) ==
            Cardinality({j \in 1..Len(positions) :
                \/ positions[j] < positions[i]
                \/ positions[j] = positions[i] /\ j < i}) + 1
    IN  [k \in 1..Len(positions) |->
            positions[CHOOSE i \in 1..Len(positions) : rank(i) = k]]

\* positions.remove(x) for an x the list holds: its first occurrence goes
RemoveFirst(positions, x) ==
    LET i == CHOOSE j \in 1..Len(positions) :
                 /\ positions[j] = x
                 /\ \A k \in 1..(j - 1) : positions[k] # x
    IN  SubSeq(positions, 1, i - 1) \o SubSeq(positions, i + 1, Len(positions))

\* Cursor.__init__ (todo.py)
TdNewCursor(position) == [positions |-> <<position>>, direction |-> "NONE"]

\* Cursor.__int__ (todo.py)
TdInt(c) == c.positions[1]

\* Cursor.set_to (todo.py)
TdSetTo(c, position) == [c EXCEPT !.positions = <<position>>]

\* Cursor.todo_set_to (todo.py): positions[0] = todo_position[1]
TodoSetTo(c, position) == [c EXCEPT !.positions[1] = position]

\* Cursor.select_next (todo.py)
TdSelectNext(c) ==
    [c EXCEPT !.positions = SortedInts(Append(c.positions, SeqMax(c.positions) + 1))]

\* Cursor.deselect_next (todo.py)
TdDeselectNext(c) ==
    IF Len(c.positions) > 1
    THEN [c EXCEPT !.positions = RemoveFirst(c.positions, SeqMax(c.positions))]
    ELSE c

\* Cursor.deselect_prev (todo.py)
TdDeselectPrev(c) ==
    IF Len(c.positions) > 1
    THEN [c EXCEPT !.positions = RemoveFirst(c.positions, SeqMin(c.positions))]
    ELSE c

\* Cursor.select_prev (todo.py)
TdSelectPrev(c) ==
    [c EXCEPT !.positions = SortedInts(Append(c.positions, SeqMin(c.positions) - 1))]

\* Cursor.get_deletable (todo.py)
TdGetDeletable(c) == [i \in 1..Len(c.positions) |-> SeqMin(c.positions)]

\* Cursor.multiselect_down (todo.py)
TdMultiselectDown(c, n) ==
    IF SeqMax(c.positions) >= n - 1 THEN c
    ELSE IF Len(c.positions) = 1 \/ c.direction = "down"
    THEN [TdSelectNext(c) EXCEPT !.direction = "down"]
    ELSE TdDeselectPrev(c)

\* Cursor.multiselect_up (todo.py)
TdMultiselectUp(c) ==
    IF SeqMin(c.positions) = 0 /\ c.direction = "up" THEN c
    ELSE IF Len(c.positions) = 1 \/ c.direction = "up"
    THEN [TdSelectPrev(c) EXCEPT !.direction = "up"]
    ELSE TdDeselectNext(c)

\* what the body of a loop "for pos in selected.positions" does to an item:
\* todo.toggle(), todo.indent(), todo.dedent(), or toggle_todo_note's
\* todo.box_char = None if todo.has_box() else "-"
ItemOp(op, t) ==
    CASE op = "toggle" -> TdToggle(t)
      [] op = "indent" -> [raises |-> "", todo |-> TdIndent(t)]
      [] op = "dedent" -> [raises |-> "", todo |-> TdDedent(t)]
      [] op = "note" ->
            [raises |-> "",
             todo |-> [t EXCEPT !.box_char = IF TdHasBox(t) THEN "NONE" ELSE "-"]]

\* for pos in positions: op on todos[pos]; todos[pos] raises IndexError
\* outside the list
RECURSIVE ForPositions(_, _, _)
ForPositions(op, items, positions) ==
    IF positions = <<>> THEN [raises |-> "", todos |-> items]
    ELSE IF IndexError(items, Head(positions))
    THEN [raises |-> "IndexError", todos |-> items]
    ELSE LET r == ItemOp(op, Item(items, Head(positions)))
         IN  IF r.raises # "" THEN [raises |-> r.raises, todos |-> items]
             ELSE ForPositions(op, ListSet(items, Head(positions), r.todo),
                               Tail(positions))

\* for pos in positions: todos = remove_todo(todos, pos)
RECURSIVE RemoveAll(_, _)
RemoveAll(items, positions) ==
    IF positions = <<>> THEN [raises |-> "", todos |-> items]
    ELSE IF Len(items) < 1 THEN RemoveAll(items, Tail(positions))
    ELSE IF IndexError(items, Head(positions))
    THEN [raises |-> "IndexError", todos |-> items]
    ELSE RemoveAll(ListPop(items, Head(positions)), Tail(positions))

\* delete_todo(stdscr, todos, selected): the list and the cursor left
DeleteTodo(items, c) ==
    LET positions == TdGetDeletable(c)
        moved     == TdSetTo(c, Clamp(TdInt(c), 0, Len(items) - 1))
        removed   == RemoveAll(items, positions)
    IN  [raises |-> removed.raises, todos |-> removed.todos, cursor |-> moved]

\* todo_up(todos, selected)
TodoUp(items, sel) ==
    [todos |-> SwapTodos(items, sel, sel - 1),
     selected |-> CursorUp(sel, Len(items))]

\* todo_down(todos, selected)
TodoDown(items, sel) ==
    [todos |-> SwapTodos(items, sel, sel + 1),
     selected |-> CursorDown(sel, Len(items))]

\* blank_todo(todos, selected)
BlankTodoNext(items, sel) ==
    LET grown == ListInsert(items, sel + 1, TdCallInit(<<>>).todo)
    IN  [todos |-> grown, selected |-> CursorDown(sel, Len(grown))]

\* wgetnstr(stdscr, win, todo, prev_todo): an empty todo takes the indent
\* and colour of prev_todo, and no box when prev_todo has none; typed.cancel
\* is escape or ctrl+c, else typed.chars are the characters in the box when
\* enter is hit
Wgetnstr(t, prev, typed) ==
    LET start == IF TdIsEmpty(t)
                 THEN [t EXCEPT !.indent_level = prev.indent_level,
                                !.color = prev.color,
                                !.box_char = IF TdHasBox(prev) THEN @ ELSE "NONE"]
                 ELSE t
    IN  IF typed.cancel THEN start ELSE TdSetDisplayText(start, typed.chars)

\* insert_todo(stdscr, todos, index), at for index: todos[index - 1] raises
\* IndexError on an empty list
InsertTodo(items, at, typed) ==
    IF IndexError(items, at - 1)
    THEN [raises |-> "IndexError", todos |-> items]
    ELSE LET new == Wgetnstr(TdCallInit(<<>>).todo, Item(items, at - 1), typed)
         IN  [raises |-> "",
              todos |-> IF TdIsEmpty(new) THEN items
                        ELSE ListInsert(items, at, new)]

\* new_todo_next(stdscr, todos, selected), paste = False
NewTodoNext(items, sel, typed) ==
    LET r == InsertTodo(items, sel + 1, typed)
    IN  [raises |-> r.raises, todos |-> r.todos,
         selected |-> IF r.todos # items THEN CursorDown(sel, Len(r.todos))
                      ELSE sel]

\* new_todo_current(stdscr, todos, selected)
NewTodoCurrent(items, sel, typed) == InsertTodo(items, sel, typed)

\* edit_todo(stdscr, todos, selected): the list left and whether
\* update_file was reached
EditTodo(items, sel, typed) ==
    IF IndexError(items, sel)
    THEN [raises |-> "IndexError", todos |-> items, saved |-> FALSE]
    ELSE LET edited == Wgetnstr(Item(items, sel), TdCallInit(<<>>).todo, typed)
         IN  [raises |-> "",
              todos |-> ListSet(items, sel, edited),
              saved |-> ~TdIsEmpty(edited)]

----------------------------------------------------------------------------
(* The values the variables of a component hold while another component's  *)
(* specification runs.                                                     *)

CodecIdle ==
    /\ line = <<>>
    /\ todo = BlankTodo
    /\ encoded = <<>>
    /\ cpc = "idle"

\* the arguments recorded for a call that is given none of interest
NoArg == [position |-> 0, total |-> <<>>, key |-> "", escape |-> FALSE, single |-> TRUE]

CursorIdle ==
    /\ max_len = 0
    /\ cursor = [start |-> 0, stop |-> 1, direction |-> "NONE"]
    /\ born = 0
    /\ ups = 0
    /\ lastops = <<>>
    /\ before = <<>>
    /\ lastarg = NoArg

HistIdle ==
    /\ history = <<>>
    /\ index = -1
    /\ returned = <<>>
    /\ raised = ""
    /\ lastcall = "idle"
    /\ undone = {}
    /\ recorded = <<>>

WinIdle ==
    /\ height = 0
    /\ lst = <<>>
    /\ wcursor = 0
    /\ distance = -1
    /\ printable = [lst |-> <<>>, cursor |-> 0]
    /\ wpc = "idle"

SortIdle ==
    /\ todos = <<>>
    /\ method = "idle"
    /\ selected = 0
    /\ once = [todos |-> <<>>, cursor |-> 0]
    /\ twice = [todos |-> <<>>, cursor |-> 0]
    /\ spc = "idle"

ChunkIdle ==
    /\ message = <<>>
    /\ width = 0
    /\ left = 0
    /\ right = 0
    /\ chunk = <<>>
    /\ kpc = "idle"

\* a prompt left with escape, nothing typed
NoTyped == [cancel |-> TRUE, chars |-> <<>>]

MainIdle ==
    /\ file = <<>>
    /\ mtodos = <<>>
    /\ mselected = TdNewCursor(0)
    /\ mhistory = <<>>
    /\ mindex = -1
    /\ copied_todo = TdCallInit(<<>>).todo
    /\ pyperclip = FALSE
    /\ clipboard = <<>>
    /\ mstatus = "idle"
    /\ mkeys = <<>>
    /\ mbefore = <<>>
    /\ mtyped = NoTyped
    /\ check = [made |-> FALSE, text |-> <<>>, written |-> <<>>, lines |-> <<>>,
                updated |-> FALSE]
    /\ turns = 0

----------------------------------------------------------------------------
(* Specification of the codec: a raw line is decoded by Todo(line) and the *)
(* item is encoded by repr().                                              *)

\* the characters raw lines are drawn from
Alphabet == {" ", "-", "+", "3", "7", "8", "a"}

\* the other components do not move
CodecOnly == UNCHANGED <<cursorVars, histVars, winVars, sortVars, mainVars,
             chunkVars>>

InitCodec ==
    /\ line \in StringsUpTo(Alphabet, MaxLineLen)
    /\ todo = BlankTodo
    /\ encoded = <<>>
    /\ cpc = "input"
    /\ CursorIdle /\ HistIdle /\ WinIdle /\ SortIdle /\ MainIdle
    /\ ChunkIdle

\* Todo(line)
Decode ==
    /\ cpc = "input"
    /\ LET r == CallInit(line)
       IN  IF r.raises
           THEN /\ cpc' = "raised"
                /\ todo' = todo
           ELSE /\ cpc' = "decoded"
                /\ todo' = r.todo
    /\ UNCHANGED <<line, encoded>>
    /\ CodecOnly

\* repr(todo)
Encode ==
    /\ cpc = "decoded"
    /\ encoded' = Repr(todo)
    /\ cpc' = "encoded"
    /\ UNCHANGED <<line, todo>>
    /\ CodecOnly

CodecNext ==
    \/ Decode
    \/ Encode

SpecCodec == InitCodec /\ [][CodecNext]_vars

\* the lines the grammar builds: indent, optional marker, optional colour
\* digit and blank, then a text that starts with none of these
GrammarText(t) ==
    \/ t = <<>>
    \/ /\ Head(t) \notin {" ", "-", "+"}
       /\ ~(Len(t) > 1 /\ Head(t) \in Digits /\ t[2] = " ")

GrammarLine(l) ==
    \E k \in 0..(MaxLineLen \div INDENT) :
    \E m \in {<<>>, <<"-">>, <<"+">>} :
    \E c \in {<<>>} \cup {<<DigitChar(d), " ">> : d \in Colors} :
        LET prefix == Spaces(k * INDENT) \o m \o c
        IN  /\ Len(prefix) <= Len(l)
            /\ SubSeq(l, 1, Len(prefix)) = prefix
            /\ GrammarText(From(l, Len(prefix)))

\* C1: decoding a line of the grammar with Todo(line) and encoding the item
\* with repr() gives back the line.
C1_LineRoundTrip ==
    (cpc = "encoded" /\ GrammarLine(line)) => encoded = line

\* the position behind the indent and the optional marker of a line
ColourPosition(l) ==
    LET k == LeadingSpaces(l)
    IN  IF Len(l) > k /\ l[k + 1] \in {"-", "+"} THEN k + 1 ELSE k

\* a line with one of the digits 0, 8, 9 and a blank at the colour position
OtherDigitLine(l) ==
    /\ Len(l) > ColourPosition(l) + 1
    /\ l[ColourPosition(l) + 1] \in {"0", "8", "9"}
    /\ l[ColourPosition(l) + 2] = " "

\* C14: Todo(line) on a line with 0, 8 or 9 and a blank at the colour
\* position raises nothing, gives the default colour and keeps the digit as
\* the first character of display_text.
C14_OtherDigitsAreText ==
    (OtherDigitLine(line) /\ cpc # "input") =>
        /\ cpc # "raised"
        /\ todo.color = WHITE
        /\ todo.display_text # <<>>
        /\ Head(todo.display_text) = line[ColourPosition(line) + 1]

----------------------------------------------------------------------------
(* Specification of the cursor: a Cursor is constructed at an index of a   *)
(* list of max_len items and its methods are called in any order, each     *)
(* with max_len = len(list).                                               *)

CursorOnly == UNCHANGED <<codecVars, histVars, winVars, sortVars, mainVars,
             chunkVars>>

\* the last two elements of a sequence
LastTwo(s) == IF Len(s) <= 2 THEN s ELSE SubSeq(s, Len(s) - 1, Len(s))

InitCursor ==
    /\ max_len \in 1..MaxLen
    /\ born \in 0..(max_len - 1)
    /\ cursor = NewCursor(born)
    /\ ups = 0
    /\ lastops = <<>>
    /\ before = <<>>
    /\ lastarg = NoArg
    /\ CodecIdle /\ HistIdle /\ WinIdle /\ SortIdle /\ MainIdle
    /\ ChunkIdle

\* a method call named op, given arg, that leaves the fields c
Call(op, arg, c) ==
    /\ c.start >= -MaxBelow
    /\ cursor' = c
    /\ lastarg' = arg
    /\ lastops' = LastTwo(Append(lastops, op))
    /\ before' = LastTwo(Append(before, cursor))
    /\ ups' = IF op = "multiselect_up" /\ ups >= 0 /\ ups < max_len
              THEN ups + 1
              ELSE -1
    /\ UNCHANGED <<max_len, born>>
    /\ CursorOnly

\* Cursor(i, todos)
CallNew ==
    \E i \in 0..(max_len - 1) :
        /\ cursor' = NewCursor(i)
        /\ born' = i
        /\ ups' = 0
        /\ lastops' = <<>>
        /\ before' = <<>>
        /\ lastarg' = NoArg
        /\ UNCHANGED max_len
        /\ CursorOnly

CallSetTo == \E i \in 0..(max_len - 1) : Call("set_to", NoArg, SetTo(cursor, i))

CallSingleUp == Call("single_up", NoArg, SingleUp(cursor, max_len))

CallSingleDown == Call("single_down", NoArg, SingleDown(cursor, max_len))

CallSlideUp == Call("slide_up", NoArg, SlideUp(cursor))

CallSlideDown == Call("slide_down", NoArg, SlideDown(cursor, max_len))

CallMultiselectUp == Call("multiselect_up", NoArg, MultiselectUp(cursor))

CallMultiselectDown == Call("multiselect_down", NoArg, MultiselectDown(cursor, max_len))

CallMultiselectTop == Call("multiselect_top", NoArg, MultiselectTop(cursor))

CallMultiselectBottom == Call("multiselect_bottom", NoArg, MultiselectBottom(cursor, max_len))

CallMultiselectAll == Call("multiselect_all", NoArg, MultiselectAll(cursor, max_len))

CallMultiselectTo ==
    \E position \in 0..(max_len - 1) :
        Call("_multiselect_to", [NoArg EXCEPT !.position = position],
             MultiselectTo(cursor, position, max_len))

\* what relative_to is given: in single mode each count with each key, in
\* multi mode one count with each kind of key, and in each mode one key that
\* ends the loop at once
RelativeInputs ==
    { [NoArg EXCEPT !.total = total, !.key = key] :
          total \in { <<"0">>, <<"2">>, <<"1", "0">> },
          key \in {"k", "j", "g", "G", "x", "interrupt"} }
    \cup { [NoArg EXCEPT !.total = <<"2">>, !.key = key, !.escape = TRUE,
                         !.single = FALSE] : key \in {"k", "j", "g", "x"} }
    \cup { [NoArg EXCEPT !.total = <<"2">>, !.key = "k", !.escape = TRUE],
           [NoArg EXCEPT !.total = <<"2">>, !.key = "k", !.single = FALSE] }

CallRelativeTo ==
    \E arg \in RelativeInputs :
        Call("relative_to", arg,
             RelativeTo(cursor, arg.total, arg.escape, arg.key, arg.single, max_len))

CursorNext ==
    \/ CallNew
    \/ CallSetTo
    \/ CallSingleUp
    \/ CallSingleDown
    \/ CallSlideUp
    \/ CallSlideDown
    \/ CallMultiselectUp
    \/ CallMultiselectDown
    \/ CallMultiselectTop
    \/ CallMultiselectBottom
    \/ CallMultiselectAll

SpecCursor == InitCursor /\ [][CursorNext]_vars

\* the jumps: a Cursor is constructed, extended up and down, and sent to a
\* target by _multiselect_to or by relative_to
JumpNext ==
    \/ CallNew
    \/ CallMultiselectUp
    \/ CallMultiselectDown
    \/ CallMultiselectTo
    \/ CallRelativeTo

SpecJump == InitCursor /\ [][JumpNext]_vars

\* the cursor is constructed, and extended and retracted by multiselect_up
\* and multiselect_down only
AnchorNext ==
    \/ CallNew
    \/ CallMultiselectUp
    \/ CallMultiselectDown

SpecAnchor == InitCursor /\ [][AnchorNext]_vars

\* C2: after any sequence of the cursor's calls on a list of max_len items
\* the selection satisfies 0 <= start < stop <= max_len.
C2_SelectionBounds ==
    /\ 0 <= cursor.start
    /\ cursor.start < cursor.stop
    /\ cursor.stop <= max_len

\* the calls made were multiselect_down then multiselect_up, on a selection
\* of length 1 at a position p with 0 < p < max_len - 1
DownThenUpInside ==
    /\ lastops = <<"multiselect_down", "multiselect_up">>
    /\ CursorLen(before[1]) = 1
    /\ 0 < before[1].start
    /\ before[1].start < max_len - 1

\* C4: multiselect_down followed by multiselect_up, from a selection of
\* length 1 at p with 0 < p < max_len - 1, leaves the selection [p, p+1).
C4_GrowThenShrinkCancels ==
    DownThenUpInside =>
        /\ cursor.start = before[1].start
        /\ cursor.stop = before[1].start + 1

C4_Witness ==
    /\ DownThenUpInside
    /\ CursorLen(cursor) = 1

\* C5: k calls of multiselect_up on a cursor constructed at p, 0 <= k <= p,
\* give the selection [p-k, p+1).
C5_UpwardExtension ==
    (ups >= 0 /\ ups <= born) =>
        /\ cursor.start = born - ups
        /\ cursor.stop = born + 1

C5_Witness ==
    /\ ups = born
    /\ born = MaxLen - 1
    /\ cursor.start = 0
    /\ cursor.stop = MaxLen

\* the last call made on the cursor, "" before the first
LastOp == IF lastops = <<>> THEN "" ELSE lastops[Len(lastops)]

\* the cursor's fields before the last call
Pre == before[Len(before)]

\* C17: on a selection longer than 1 whose direction is opposite to the
\* call's, multiselect_down raises start by one and leaves stop, and
\* multiselect_up lowers stop by one and leaves start, also when the
\* selection touches the end or the beginning of the list.
C17_MismatchShrinks ==
    /\ (LastOp = "multiselect_down" /\ CursorLen(Pre) > 1 /\ Pre.direction = "UP") =>
           /\ cursor.start = Pre.start + 1
           /\ cursor.stop = Pre.stop
    /\ (LastOp = "multiselect_up" /\ CursorLen(Pre) > 1 /\ Pre.direction = "DOWN") =>
           /\ cursor.stop = Pre.stop - 1
           /\ cursor.start = Pre.start

\* C18: on a selection of length 1 or of the call's direction that does not
\* touch the list boundary on the call's side, multiselect_down raises stop
\* by one and multiselect_up lowers start by one, the other end stays and
\* the direction becomes the call's; on a selection of the call's direction
\* that touches the boundary (start = 0 for up, stop = max_len for down) the
\* call changes nothing.
C18_GrowStep ==
    /\ (/\ LastOp = "multiselect_down"
        /\ CursorLen(Pre) = 1 \/ Pre.direction = "DOWN"
        /\ Pre.stop # max_len) =>
           cursor = [start |-> Pre.start, stop |-> Pre.stop + 1, direction |-> "DOWN"]
    /\ (/\ LastOp = "multiselect_up"
        /\ CursorLen(Pre) = 1 \/ Pre.direction = "UP"
        /\ Pre.start # 0) =>
           cursor = [start |-> Pre.start - 1, stop |-> Pre.stop, direction |-> "UP"]
    /\ (LastOp = "multiselect_down" /\ Pre.direction = "DOWN" /\ Pre.stop = max_len) =>
           cursor = Pre
    /\ (LastOp = "multiselect_up" /\ Pre.direction = "UP" /\ Pre.start = 0) =>
           cursor = Pre

\* a selection of several items that pointed down was extended by one
C18_Witness ==
    /\ LastOp = "multiselect_down"
    /\ Pre.direction = "DOWN"
    /\ CursorLen(Pre) > 1
    /\ cursor = [start |-> Pre.start, stop |-> Pre.stop + 1, direction |-> "DOWN"]
    /\ cursor.stop = max_len

\* C19: after multiselect_top() the selection starts at index 0.
C19_SelectToTop ==
    (LastOp = "multiselect_top") => cursor.start = 0

\* C20: after multiselect_bottom(max_len) the selection stops at max_len.
C20_SelectToBottom ==
    (LastOp = "multiselect_bottom") => cursor.stop = max_len

\* C26: set_to(i) leaves the selection [i, i+1), and a multiselect_up or
\* multiselect_down called next leaves the selection it leaves on a Cursor
\* freshly constructed at i.
C26_SetToForgetsDirection ==
    /\ LastOp = "set_to" => CursorLen(cursor) = 1
    /\ (/\ Len(lastops) = 2
        /\ lastops[1] = "set_to"
        /\ lastops[2] \in {"multiselect_up", "multiselect_down"}) =>
           LET fresh == NewCursor(Pre.start)
               same  == IF lastops[2] = "multiselect_up"
                        THEN MultiselectUp(fresh)
                        ELSE MultiselectDown(fresh, max_len)
           IN  /\ cursor.start = same.start
               /\ cursor.stop = same.stop

\* C27: on a selection of the whole list (length max_len >= 2) single_up
\* leaves the length-1 selection at max_len - 1 and single_down the one at
\* 0; on any other selection single_up never moves the start down the list
\* and single_down never moves it up.
C27_WholeListWrap ==
    /\ (LastOp = "single_up" /\ CursorLen(Pre) = max_len /\ max_len >= 2) =>
           cursor.start = max_len - 1 /\ cursor.stop = max_len
    /\ (LastOp = "single_down" /\ CursorLen(Pre) = max_len /\ max_len >= 2) =>
           cursor.start = 0 /\ cursor.stop = 1
    /\ (LastOp = "single_up" /\ CursorLen(Pre) # max_len) =>
           cursor.start <= Pre.start
    /\ (LastOp = "single_down" /\ CursorLen(Pre) # max_len) =>
           cursor.start >= Pre.start

\* C28: on a length-1 selection at an index p of the list, single_up leaves
\* the length-1 selection at max(p - 1, 0) and single_down the one at
\* min(p + 1, max_len - 1).
C28_SingleStepClamps ==
    (/\ LastOp \in {"single_up", "single_down"}
     /\ CursorLen(Pre) = 1
     /\ 0 <= Pre.start
     /\ Pre.start < max_len) =>
        /\ CursorLen(cursor) = 1
        /\ cursor.start = IF LastOp = "single_up"
                          THEN Max(Pre.start - 1, 0)
                          ELSE Min(Pre.start + 1, max_len - 1)

\* single_up was held at index 0 and single_down then moved to index 1
C28_Witness ==
    /\ lastops = <<"single_up", "single_down">>
    /\ before[1] = NewCursor(0)
    /\ before[2].start = 0
    /\ cursor.start = 1
    /\ cursor.stop = 2

\* C29: from a length-1 selection at p, _multiselect_to(t, max_len) with
\* 0 <= t < max_len leaves the selection [min(p, t), max(p, t) + 1).
C29_MultiselectTo ==
    (/\ LastOp = "_multiselect_to"
     /\ CursorLen(Pre) = 1
     /\ 0 <= lastarg.position
     /\ lastarg.position < max_len) =>
        /\ cursor.start = Min(Pre.start, lastarg.position)
        /\ cursor.stop = Max(Pre.start, lastarg.position) + 1

\* a selection at the last index that remembered the direction down was
\* extended up to index 0
C29_Witness ==
    /\ LastOp = "_multiselect_to"
    /\ max_len = MaxLen
    /\ Pre = [start |-> MaxLen - 1, stop |-> MaxLen, direction |-> "DOWN"]
    /\ lastarg.position = 0
    /\ cursor.start = 0
    /\ cursor.stop = MaxLen

\* C30: relative_to in single mode on a selection that starts at an index p
\* of the list, with the count N typed: the key k leaves the length-1
\* selection at max(p - N, 0), j the one at min(p + N, max_len - 1), g or G
\* the one at min(max(N - 1, 0), max_len - 1); any other key (escape too)
\* and an interrupt leave the selection as it was.
C30_RelativeJump ==
    (/\ LastOp = "relative_to"
     /\ lastarg.single
     /\ 0 <= Pre.start
     /\ Pre.start < max_len) =>
        LET N == IntOf(lastarg.total)
        IN  IF ~lastarg.escape /\ lastarg.key \in {"k", "j", "g", "G"}
            THEN /\ CursorLen(cursor) = 1
                 /\ cursor.start =
                        CASE lastarg.key = "k" -> Max(Pre.start - N, 0)
                          [] lastarg.key = "j" -> Min(Pre.start + N, max_len - 1)
                          [] OTHER -> Min(Max(N - 1, 0), max_len - 1)
            ELSE /\ cursor.start = Pre.start
                 /\ cursor.stop = Pre.stop

\* a selection of several items was collapsed two items further down
C30_Witness ==
    /\ LastOp = "relative_to"
    /\ lastarg.single
    /\ lastarg.key = "j"
    /\ lastarg.total = <<"2">>
    /\ CursorLen(Pre) = 2
    /\ Pre.start = 1
    /\ cursor.start = 3
    /\ cursor.stop = 4

\* C39: after any calls of multiselect_up and multiselect_down(max_len) on a
\* cursor constructed at p with 0 < p < max_len - 1, the index p is inside
\* the selection and is its first or its last position.
C39_AnchorInvariant ==
    (0 < born /\ born < max_len - 1) =>
        /\ cursor.start <= born
        /\ born < cursor.stop
        /\ cursor.start = born \/ cursor.stop = born + 1

\* a selection that reached above p two calls ago now reaches from p
\* downward
C39_Witness ==
    /\ 0 < born /\ born < max_len - 1
    /\ Len(before) = 2
    /\ before[1].start < born
    /\ cursor.start = born
    /\ cursor.stop > born + 1

----------------------------------------------------------------------------
(* Specification of the viewport: make_printable_sublist is called once on *)
(* a list of distinct elements with a cursor inside the list, with the     *)
(* default distance (print_todos) or with distance 0 (help_menu).          *)

WinOnly == UNCHANGED <<codecVars, cursorVars, histVars, sortVars, mainVars,
             chunkVars>>

InitWin ==
    /\ height \in 1..MaxHeight
    /\ \E n \in 0..MaxItems : lst = [i \in 1..n |-> i]
    /\ wcursor \in 0..Max(Len(lst) - 1, 0)
    /\ distance \in {-1, 0}
    /\ printable = [lst |-> <<>>, cursor |-> 0]
    /\ wpc = "input"
    /\ CodecIdle /\ CursorIdle /\ HistIdle /\ SortIdle /\ MainIdle
    /\ ChunkIdle

\* make_printable_sublist(height, lst, cursor, distance)
Window ==
    /\ wpc = "input"
    /\ printable' = MakePrintableSublist(height, lst, wcursor, distance)
    /\ wpc' = "done"
    /\ UNCHANGED <<height, lst, wcursor, distance>>
    /\ WinOnly

WinNext == Window

SpecWin == InitWin /\ [][WinNext]_vars

\* C3: with the default margin, for a list of n >= 1 elements and a cursor
\* in [0, n), the sublist has min(height, n) elements and the adjusted
\* cursor lies inside it.
C3_WindowSize ==
    (wpc = "done" /\ distance = -1 /\ Len(lst) >= 1) =>
        /\ Len(printable.lst) = Min(height, Len(lst))
        /\ 0 <= printable.cursor
        /\ printable.cursor < Len(printable.lst)

\* the window is pinned to the end of a list longer than the display
C3_Witness ==
    /\ wpc = "done"
    /\ distance = -1
    /\ Len(lst) = 10
    /\ height = 5
    /\ wcursor = 8
    /\ printable = [lst |-> <<6, 7, 8, 9, 10>>, cursor |-> 3]

\* C36: with the default margin m = height * 3 // 7 and a list of
\* n >= height elements, whenever cursor - m > n - height the window is the
\* last height elements of the list and the adjusted cursor is
\* cursor - (n - height).
C36_WindowPinnedAtEnd ==
    (/\ wpc = "done"
     /\ distance = -1
     /\ Len(lst) >= height
     /\ wcursor - (height * 3) \div 7 > Len(lst) - height) =>
        /\ printable.lst = SubSeq(lst, Len(lst) - height + 1, Len(lst))
        /\ printable.cursor = wcursor - (Len(lst) - height)

\* the window of 5 lines on 10 elements with the cursor at 8 is the elements
\* at the indices 5 to 9, and the cursor is on its line 3
C36_Witness ==
    /\ wpc = "done"
    /\ distance = -1
    /\ Len(lst) = 10 /\ height = 5 /\ wcursor = 8
    /\ wcursor - (height * 3) \div 7 > Len(lst) - height
    /\ printable.lst = SubSeq(lst, 6, 10)
    /\ printable.cursor = 3

\* C37: for a height >= 1 and a cursor at an index of the list, the sublist
\* is a run of consecutive elements of the list, and the element at the
\* adjusted cursor in the sublist is the element at the cursor in the list.
C37_WindowHoldsCursor ==
    (wpc = "done" /\ height >= 1 /\ 0 <= wcursor /\ wcursor < Len(lst)) =>
        /\ \E first \in 0..Len(lst) :
               printable.lst = SubSeq(lst, first + 1, first + Len(printable.lst))
        /\ 0 <= printable.cursor
        /\ printable.cursor < Len(printable.lst)
        /\ printable.lst[printable.cursor + 1] = lst[wcursor + 1]

\* a window in the middle of the list: elements are cut off on both sides
\* and the cursor is neither on its first nor on its last line
C37_Witness ==
    /\ wpc = "done"
    /\ Len(printable.lst) = height
    /\ printable.lst[1] # lst[1]
    /\ printable.lst[height] # lst[Len(lst)]
    /\ 0 < printable.cursor /\ printable.cursor < height - 1
    /\ printable.lst[printable.cursor + 1] = lst[wcursor + 1]

----------------------------------------------------------------------------
(* Specification of the item mutations: a Todo built from a line whose     *)
(* text is its own encoding is toggled, indented, dedented, recoloured,    *)
(* given an indent level and given a text, in any order.                   *)

\* the lines the items are built from
ItemLines ==
    { <<>>, <<"a">>, <<"-", " ", "a">>, <<"+", "3", " ", "a">>,
      <<" ", " ", "-", " ", "a">> }

\* the texts handed to set_display_text
ItemTexts == { <<>>, <<"b">> }

\* Todo(line)
InitItem ==
    /\ line \in ItemLines
    /\ todo = CallInit(line).todo
    /\ encoded = <<>>
    /\ cpc = "item"
    /\ CursorIdle /\ HistIdle /\ WinIdle /\ SortIdle /\ MainIdle
    /\ ChunkIdle

\* todo.toggle()
Toggle ==
    /\ cpc = "item"
    /\ \E t \in {[todo EXCEPT !.box_char = CASE @ = "PLUS" -> "MINUS"
                                             [] @ = "MINUS" -> "PLUS"
                                             [] @ = "NONE" -> "NONE"]} :
           todo' = [t EXCEPT !.text = Repr(t)]
    /\ UNCHANGED <<line, encoded, cpc>>
    /\ CodecOnly

\* todo.indent()
Indent ==
    /\ cpc \in {"item", "decoded"}
    /\ todo.indent_level + INDENT <= MaxIndent
    /\ \E t \in {[todo EXCEPT !.indent_level = @ + INDENT]} :
           todo' = [t EXCEPT !.text = Repr(t)]
    /\ UNCHANGED <<line, encoded, cpc>>
    /\ CodecOnly

\* todo.dedent()
Dedent ==
    /\ cpc \in {"item", "decoded"}
    /\ IF todo.indent_level >= INDENT
       THEN \E t \in {[todo EXCEPT !.indent_level = @ - INDENT]} :
               todo' = [t EXCEPT !.text = Repr(t)]
       ELSE todo' = todo
    /\ UNCHANGED <<line, encoded, cpc>>
    /\ CodecOnly

\* todo.set_color(color)
SetColor ==
    /\ cpc = "item"
    /\ \E color \in Colors : todo' = [todo EXCEPT !.color = color]
    /\ UNCHANGED <<line, encoded, cpc>>
    /\ CodecOnly

\* todo.set_indent_level(indent_level)
SetIndentLevel ==
    /\ cpc = "item"
    /\ \E indent_level \in 0..MaxIndent :
           todo' = [todo EXCEPT !.indent_level = indent_level]
    /\ UNCHANGED <<line, encoded, cpc>>
    /\ CodecOnly

\* todo.set_display_text(display_text)
SetDisplayText ==
    /\ cpc = "item"
    /\ \E display_text \in ItemTexts :
       \E t \in {[todo EXCEPT !.display_text = display_text]} :
           todo' = [t EXCEPT !.text = Repr(t)]
    /\ UNCHANGED <<line, encoded, cpc>>
    /\ CodecOnly

\* todo = todo.copy(): Todo(repr(todo))
Copy ==
    /\ cpc = "item"
    /\ \E r \in {CallInit(Repr(todo))} :
           IF r.raises
           THEN /\ cpc' = "raised"
                /\ todo' = todo
           ELSE /\ cpc' = "copied"
                /\ todo' = r.todo
    /\ UNCHANGED <<line, encoded>>
    /\ CodecOnly

ItemNext ==
    \/ Toggle
    \/ Indent
    \/ Dedent
    \/ SetColor
    \/ SetIndentLevel
    \/ SetDisplayText
    \/ Copy

SpecItem == InitItem /\ [][ItemNext]_vars

\* C25: the cached text of an item built from a line that is its own
\* encoding equals repr(item) after every toggle, indent, dedent, set_color,
\* set_indent_level and set_display_text.
C25_CachedEncoding == cpc = "item" => todo.text = Repr(todo)

\* C32: the copy Todo(repr(item)) of every item the mutations produce has the
\* indent_level, box_char, color and display_text of the item, a PLUS box on
\* an item with an empty display_text included.
C32_ItemRoundTrip ==
    [][Copy => /\ cpc' = "copied"
               /\ todo'.indent_level = todo.indent_level
               /\ todo'.box_char = todo.box_char
               /\ todo'.color = todo.color
               /\ todo'.display_text = todo.display_text]_vars

\* Specification of the indentation of decoded items: any line is decoded by
\* Todo(line) and the item is indented and dedented in any order.
DentNext ==
    \/ Decode
    \/ Indent
    \/ Dedent

SpecDent == InitCodec /\ [][DentNext]_vars

\* C31: every item reached by decoding a line that Todo(line) accepts and
\* then indenting and dedenting it in any order has an indent_level that is
\* non-negative and a multiple of INDENT.
C31_IndentInvariant ==
    cpc = "decoded" =>
        /\ todo.indent_level >= 0
        /\ todo.indent_level % INDENT = 0

----------------------------------------------------------------------------
(* Specification of the snapshot history: add, undo and redo are called in *)
(* any order on a fresh UndoRedo object.                                   *)

HistOnly == UNCHANGED <<codecVars, cursorVars, winVars, sortVars, mainVars,
             chunkVars>>

\* the lists of items handed to add()
RecordedLists ==
    { <<>>,
      <<CallInit(<<"a">>).todo>>,
      <<CallInit(<<>>).todo, CallInit(<<"-", " ", "b">>).todo>> }

InitHist ==
    /\ history = <<>>
    /\ index = -1
    /\ returned = <<>>
    /\ raised = ""
    /\ lastcall = "new"
    /\ undone = {}
    /\ recorded = <<>>
    /\ CodecIdle /\ CursorIdle /\ WinIdle /\ SortIdle /\ MainIdle
    /\ ChunkIdle

\* history.add(todos, selected)
Add ==
    /\ Len(history) < MaxHistory
    /\ \E items \in RecordedLists :
       \E sel \in 0..Max(Len(items) - 1, 0) :
           LET after == HistoryAdd(history, index, items, sel)
           IN  /\ history' = after.history
               /\ index' = after.index
               /\ recorded' = Append(recorded, [todos |-> items, selected |-> sel])
    /\ undone' = undone \cup {i \in 1..Len(history) : i > index + 1}
    /\ raised' = ""
    /\ lastcall' = "add"
    /\ UNCHANGED returned
    /\ HistOnly

\* history.undo()
Undo ==
    /\ index' = UndoIndex(index)
    /\ IF IndexError(history, index')
       THEN /\ raised' = "IndexError"
            /\ UNCHANGED returned
       ELSE /\ raised' = ""
            /\ returned' = RestorableGet(Item(history, index'))
    /\ lastcall' = "undo"
    /\ UNCHANGED <<history, undone, recorded>>
    /\ HistOnly

\* history.redo()
Redo ==
    /\ index' = RedoIndex(history, index)
    /\ IF IndexError(history, index')
       THEN /\ raised' = "IndexError"
            /\ UNCHANGED returned
       ELSE /\ raised' = ""
            /\ returned' = RestorableGet(Item(history, index'))
    /\ lastcall' = "redo"
    /\ UNCHANGED <<history, undone, recorded>>
    /\ HistOnly

HistNext ==
    \/ Add
    \/ Undo
    \/ Redo

SpecHist == InitHist /\ [][HistNext]_vars

\* C6: undo() on an empty history (index = -1) raises nothing and leaves
\* index at -1.
C6_UndoOnEmptyHistory ==
    (lastcall = "undo" /\ history = <<>>) => (raised = "" /\ index = -1)

\* C7: on a non-empty history undo() at index 0 and redo() at the last index
\* leave index unchanged, elsewhere they move it by one; both return the
\* snapshot stored at the resulting index and leave the history array alone.
C7_StepSemantics ==
    [][ /\ (history # <<>> /\ lastcall' = "undo") =>
              /\ index' = (IF index = 0 THEN 0 ELSE index - 1)
              /\ raised' = ""
              /\ returned' = RestorableGet(history[index' + 1])
              /\ history' = history
        /\ (history # <<>> /\ lastcall' = "redo") =>
              /\ index' = (IF index = Len(history) - 1 THEN index ELSE index + 1)
              /\ raised' = ""
              /\ returned' = RestorableGet(history[index' + 1])
              /\ history' = history
      ]_vars

\* undo() has stepped back from the last to the first of several entries
C7_Witness ==
    /\ lastcall = "undo"
    /\ Len(history) = MaxHistory
    /\ index = 0
    /\ returned = RestorableGet(history[1])
    /\ returned.selected = 1

\* C8: once something was added 0 <= index <= len(history) - 1; index is -1
\* exactly when the history is empty; right after add() index is
\* len(history) - 1.
C8_IndexInvariant ==
    /\ (history # <<>>) => (0 <= index /\ index <= Len(history) - 1)
    /\ (index = -1) <=> (history = <<>>)
    /\ (lastcall = "add") => (index = Len(history) - 1)

\* an add() made after undo() stepped back
C8_Witness ==
    /\ lastcall = "add"
    /\ undone # {}
    /\ index = Len(history) - 1

\* C9: an entry that had been undone when add() was called is never again
\* the entry undo() or redo() returns.
C9_UndoneEntriesUnreachable ==
    (lastcall \in {"undo", "redo"} /\ raised = "") => (index + 1) \notin undone

----------------------------------------------------------------------------
(* Specification of the sort: a non-empty list is sorted by a method of    *)
(* the sort menu, and the result is sorted again by the same method.       *)

SortOnly == UNCHANGED <<codecVars, cursorVars, histVars, winVars, mainVars,
             chunkVars>>

\* the lines the items of the list are decoded from
SortLines ==
    { <<"-", " ", "b">>,
      <<"+", "3", " ", "a">>,
      <<" ", " ", "-", " ", "a">>,
      <<"1", " ", "b">> }

\* the list of the Todo objects decoded from lines, the i-th with identity i
ItemsOf(lines) == [i \in 1..Len(lines) |-> [id |-> i] @@ CallInit(lines[i]).todo]

InitSort ==
    /\ \E n \in 1..MaxSortLen :
       \E lines \in [1..n -> SortLines] : todos = ItemsOf(lines)
    /\ method \in {"Alphabetical", "Completed", "Color"}
    /\ selected \in 0..(Len(todos) - 1)
    /\ once = [todos |-> <<>>, cursor |-> 0]
    /\ twice = [todos |-> <<>>, cursor |-> 0]
    /\ spc = "input"
    /\ CodecIdle /\ CursorIdle /\ HistIdle /\ WinIdle /\ MainIdle
    /\ ChunkIdle

\* sort_menu, enter: _sort_by(method, todos, selected)
MenusSort ==
    /\ spc = "input"
    /\ once' = SortBy(method, todos, selected)
    /\ spc' = "menus1"
    /\ UNCHANGED <<todos, method, selected, twice>>
    /\ SortOnly

\* the same menu entry on the list and index just returned
MenusSortAgain ==
    /\ spc = "menus1"
    /\ twice' = SortBy(method, once.todos, once.cursor)
    /\ spc' = "menus2"
    /\ UNCHANGED <<todos, method, selected, once>>
    /\ SortOnly

\* todo.py's sort_by: flatten_todos(todos, int(selected), key)
TodoSort ==
    /\ spc = "input"
    /\ method \in {"Alphabetical", "Color"}
    /\ once' = FlattenTodos(method, todos, selected)
    /\ spc' = "todo1"
    /\ UNCHANGED <<todos, method, selected, twice>>
    /\ SortOnly

TodoSortAgain ==
    /\ spc = "todo1"
    /\ twice' = FlattenTodos(method, once.todos, once.cursor)
    /\ spc' = "todo2"
    /\ UNCHANGED <<todos, method, selected, once>>
    /\ SortOnly

SortNext ==
    \/ MenusSort
    \/ MenusSortAgain
    \/ TodoSort
    \/ TodoSortAgain

SpecSort == InitSort /\ [][SortNext]_vars

\* C10: sorting the result of a sort again with the same method returns the
\* items in exactly the same order.
C10_SortIdempotent ==
    (spc \in {"menus2", "todo2"}) => twice.todos = once.todos

\* a sort that moved items, one of them an indented item that headed the
\* list, and whose result was sorted again
C10_Witness ==
    /\ spc = "menus2"
    /\ todos[1].indent_level > 0
    /\ once.todos # todos
    /\ twice.todos = once.todos

\* C11: the index a sort returns points, in the sorted list, at the very
\* object that was selected in the list handed to the sort.
C11_SortKeepsSelectedItem ==
    (spc \in {"menus1", "todo1"}) =>
        /\ 0 <= once.cursor
        /\ once.cursor < Len(once.todos)
        /\ once.todos[once.cursor + 1].id = todos[selected + 1].id

\* the selected item was moved by the sort and the list holds another item
\* with the same fields in front of it
C11_Witness ==
    /\ spc = "menus1"
    /\ once.cursor # selected
    /\ once.todos[once.cursor + 1].id = todos[selected + 1].id
    /\ \E i \in 1..selected :
           [todos[i] EXCEPT !.id = 0] = [todos[selected + 1] EXCEPT !.id = 0]

\* C34: the sections _get_indented_sections and get_indented_sections make
\* of the list handed to the sort are non-empty, follow one another so that
\* their concatenation is the list, and each is one item of indent 0
\* followed only by items of indent > 0.
C34_SectionGrouping ==
    (spc \in {"menus1", "todo1"}) =>
        LET sections == GetIndentedSections(todos)
        IN  /\ Flatten(sections) = todos
            /\ \A k \in 1..Len(sections) :
                   /\ Len(sections[k]) > 0
                   /\ sections[k][1].indent_level = 0
                   /\ \A j \in 2..Len(sections[k]) :
                          sections[k][j].indent_level > 0

\* the module whose sort made the list in once
SortModule == IF spc \in {"menus1", "menus2"} THEN "menus" ELSE "todo"

\* the orders p of the sections in which the keys never decrease and
\* sections with equal keys stay in the order they had
StableOrders(mod, m, sections) ==
    {p \in Permutations(1..Len(sections)) :
        \A i, j \in 1..Len(sections) :
            i < j =>
                /\ ~SectionLess(mod, m, sections[p[j]], sections[p[i]])
                /\ ~SectionLess(mod, m, sections[p[i]], sections[p[j]])
                       => p[i] < p[j]}

\* C35: the sorted list is the concatenation of the sections of the list
\* handed to the sort, each with its items in their order, in an order of
\* non-decreasing key of the first item in which sections with equal keys
\* keep their relative order; it holds the objects of the input, each once.
C35_StableSectionSort ==
    (spc \in {"menus1", "todo1"}) =>
        LET sections == GetIndentedSections(todos)
        IN  /\ \E p \in StableOrders(SortModule, method, sections) :
                   once.todos = Flatten([k \in 1..Len(sections) |-> sections[p[k]]])
            /\ Len(once.todos) = Len(todos)
            /\ \A i \in 1..Len(todos) :
                   Cardinality({j \in 1..Len(once.todos) :
                                    once.todos[j].id = todos[i].id}) = 1

\* a sort moved a section in front of two sections that have equal keys,
\* one of them with an indented item behind its first item
C35_Witness ==
    /\ spc = "menus1"
    /\ once.todos # todos
    /\ LET sections == GetIndentedSections(todos)
       IN  /\ \E k \in 1..Len(sections) : Len(sections[k]) > 1
           /\ \E i, j \in 1..Len(sections) :
                  /\ i < j
                  /\ ~MenusLess(method, sections[i], sections[j])
                  /\ ~MenusLess(method, sections[j], sections[i])
    /\ C35_StableSectionSort

----------------------------------------------------------------------------
(* Specification of a session of src/todo.py: main loads the storage file, *)
(* and every turn of its loop reloads the list when                        *)
(* is_file_externally_updated says so and then handles one key.  Between   *)
(* two turns another program may write the file.                           *)

MainOnly == UNCHANGED <<codecVars, cursorVars, histVars, winVars, sortVars,
             chunkVars>>

\* the lines of the storage files a session starts from
FileLines == { <<"-", " ", "a">>, <<" ", " ", "-", " ", "b">>, <<"c">> }

\* the texts another program writes to the storage file
ExternalTexts == { <<>>, <<"-", " ", "z">> }

\* what the user types into the edit box
EditInputs ==
    { [cancel |-> TRUE, chars |-> <<>>],
      [cancel |-> FALSE, chars |-> <<>>],
      [cancel |-> FALSE, chars |-> <<"e">>] }

\* what the user types into the box of the search
SearchInputs ==
    { [cancel |-> TRUE, chars |-> <<>>],
      [cancel |-> FALSE, chars |-> <<"a">>],
      [cancel |-> FALSE, chars |-> <<"e">>] }

\* the texts the system clipboard starts with
ClipTexts == { <<>>, <<"z">> }

\* Todo("- placeholder")
Placeholder ==
    TdCallInit(<<"-", " ", "p", "l", "a", "c", "e", "h", "o", "l", "d", "e", "r">>).todo

\* an argument list entry that holds no cursor
NoCursor == TdNewCursor(0)

\* (revert_with, deepcopy_ignore([*args])): the copied arguments are a list
\* of items, a cursor and up to two integers
Entry(func, items, c, a, b) ==
    [func |-> func, todos |-> items, cursor |-> c, a |-> a, b |-> b]

\* the values a handler leaves that touches nothing
Keep(items) ==
    [raises |-> "", todos |-> items, cursor |-> mselected, history |-> mhistory,
     index |-> mindex, file |-> file, copied |-> copied_todo,
     clipboard |-> clipboard, status |-> "running"]

\* UndoRedo.add_undo (todo.py)
AddUndo(out, entry) ==
    [out EXCEPT !.history = Append(out.history, entry),
                !.index = Len(out.history)]

\* an exception that leaves the handler
Raise(out, exception) == [out EXCEPT !.raises = exception]

\* main, key d
OnD(items) ==
    LET r == DeleteTodo(items, mselected)
    IN  IF r.raises # "" THEN Raise(Keep(items), r.raises)
        ELSE [AddUndo(Keep(items),
                      Entry("lambda", items, NoCursor, TdInt(mselected), 0))
                EXCEPT !.todos = r.todos,
                       !.cursor = TodoSetTo(r.cursor, TdInt(r.cursor)),
                       !.file = UpdateFile(r.todos)]

\* main, key enter: toggle(todos, selected), then add_undo(toggle, ...)
OnEnter(items) ==
    LET r == ForPositions("toggle", items, mselected.positions)
    IN  IF r.raises # "" THEN Raise(Keep(items), r.raises)
        ELSE AddUndo([Keep(items) EXCEPT !.todos = r.todos,
                                         !.file = UpdateFile(r.todos)],
                     Entry("toggle", r.todos, mselected, 0, 0))

\* main, keys tab and shift+tab: indent / dedent(todos, selected)
OnIndent(op, items) ==
    LET r == ForPositions(op, items, mselected.positions)
    IN  IF r.raises # "" THEN Raise(Keep(items), r.raises)
        ELSE [AddUndo(Keep(items), Entry("reset_todos", items, NoCursor, 0, 0))
                EXCEPT !.todos = r.todos,
                       !.cursor = TodoSetTo(mselected, mselected.positions[1]),
                       !.file = UpdateFile(r.todos)]

\* "sequence in text"
Contains(sequence, text) == Occurrences(text, sequence) # {}

\* search: the items of todos[int(selected):] are scanned from the index
\* int(selected) on for the sequence typed at the prompt
Search(items, c, typed) ==
    LET sequence == Wgetnstr(TdCallInit(<<>>).todo, TdCallInit(<<>>).todo,
                             typed).display_text
        n == Len(items)
        first == IF TdInt(c) < 0 THEN Max(n + TdInt(c), 0) ELSE Min(TdInt(c), n)
        found == {k \in first..(n - 1) :
                     Contains(sequence, items[k + 1].display_text)}
    IN  IF found = {}
        THEN TdSetTo(c, 0)
        ELSE LET k == CHOOSE i \in found : \A j \in found : i <= j
             IN  TdSetTo(c, TdInt(c) + (k - first))

\* main, key i
OnI(items, typed) ==
    IF Len(items) <= 0 THEN Keep(items)
    ELSE LET r == EditTodo(items, TdInt(mselected), typed)
         IN  IF r.raises # "" THEN Raise(Keep(items), r.raises)
             ELSE [AddUndo(Keep(items), Entry("reset_todos", items, NoCursor, 0, 0))
                     EXCEPT !.todos = r.todos,
                            !.file = IF r.saved THEN UpdateFile(r.todos) ELSE file]

\* main, key -
OnMinus(items) ==
    LET r == BlankTodoNext(items, TdInt(mselected))
        c == TodoSetTo(mselected, r.selected)
    IN  AddUndo([Keep(items) EXCEPT !.todos = r.todos, !.cursor = c,
                                    !.file = UpdateFile(r.todos)],
                Entry("delete_todo", r.todos, c, 0, 0))

\* main, key o
OnO(items, typed) ==
    LET r == NewTodoNext(items, TdInt(mselected), typed)
        c == TodoSetTo(mselected, r.selected)
    IN  IF r.raises # "" THEN Raise(Keep(items), r.raises)
        ELSE AddUndo([Keep(items) EXCEPT !.todos = r.todos, !.cursor = c,
                                         !.file = UpdateFile(r.todos)],
                     Entry("delete_todo", r.todos, c, 0, 0))

\* main, key O
OnShiftO(items, typed) ==
    LET r == NewTodoCurrent(items, TdInt(mselected), typed)
    IN  IF r.raises # "" THEN Raise(Keep(items), r.raises)
        ELSE AddUndo([Keep(items) EXCEPT !.todos = r.todos,
                                         !.file = UpdateFile(r.todos)],
                     Entry("delete_todo", r.todos, mselected, 0, 0))

\* main, key alt+j
OnAltJ(items) ==
    LET r == TodoDown(items, TdInt(mselected))
    IN  [AddUndo(Keep(items),
                 Entry("todo_up", items, NoCursor, TdInt(mselected) + 1, 0))
           EXCEPT !.todos = r.todos,
                  !.cursor = TodoSetTo(mselected, r.selected),
                  !.file = UpdateFile(r.todos)]

\* main, key alt+k
OnAltK(items) ==
    LET r == TodoUp(items, TdInt(mselected))
    IN  [AddUndo(Keep(items),
                 Entry("todo_down", items, NoCursor, TdInt(mselected) - 1, 0))
           EXCEPT !.todos = r.todos,
                  !.cursor = TodoSetTo(mselected, r.selected),
                  !.file = UpdateFile(r.todos)]

\* main, keys k and j: cursor_up / cursor_down
OnMove(step, items) ==
    [AddUndo(Keep(items),
             Entry("cursor_to", <<>>, NoCursor, TdInt(mselected), Len(items)))
       EXCEPT !.cursor = TdSetTo(mselected,
                                 Clamp(TdInt(mselected) + step, 0, Len(items)))]

\* main, key delete: toggle_todo_note, then add_undo(toggle_todo_note, ...)
OnDelete(items) ==
    LET r == ForPositions("note", items, mselected.positions)
    IN  IF r.raises # "" THEN Raise(Keep(items), r.raises)
        ELSE AddUndo([Keep(items) EXCEPT !.todos = r.todos,
                                         !.file = UpdateFile(r.todos)],
                     Entry("toggle_todo_note", r.todos, mselected, 0, 0))

\* raise ExternalModuleNotFoundError(...): update_file(FILENAME, todos, True),
\* then exit(...)
ExternalModuleNotFoundError(items) ==
    [Keep(items) EXCEPT !.raises = "SystemExit", !.file = UpdateFile(items)]

\* main, key y: copy_todo(todos, int(selected), copied_todo)
OnY(items) ==
    IF ~pyperclip THEN ExternalModuleNotFoundError(items)
    ELSE IF IndexError(items, TdInt(mselected))
    THEN Raise(Keep(items), "IndexError")
    ELSE LET t == Item(items, TdInt(mselected))
             r == TdCallInit(t.text)
         IN  IF r.raises # ""
             THEN Raise([Keep(items) EXCEPT !.clipboard = t.display_text], r.raises)
             ELSE [Keep(items) EXCEPT !.clipboard = t.display_text,
                                      !.copied = r.todo]

\* todo_from_clipboard(todos, selected, copied_todo) with pyperclip at hand
TodoFromClipboard(items, sel) ==
    IF copied_todo.display_text = clipboard
    THEN LET r == TdCallInit(copied_todo.text)
         IN  [raises |-> r.raises, todos |-> ListInsert(items, sel + 1, r.todo)]
    ELSE IF \E i \in 1..Len(clipboard) : clipboard[i] = NL
    THEN [raises |-> "", todos |-> items]
    ELSE LET r == TdCallInit(<<"-", " ">> \o clipboard)
         IN  [raises |-> r.raises, todos |-> ListInsert(items, sel + 1, r.todo)]

\* main, key p: paste_todo, i.e. new_todo_next(..., paste=True), then
\* add_undo(delete_todo, ...)
OnP(items) ==
    IF ~pyperclip THEN ExternalModuleNotFoundError(items)
    ELSE LET r   == TodoFromClipboard(items, TdInt(mselected))
             sel == IF Len(r.todos) # Len(items)
                    THEN CursorDown(TdInt(mselected), Len(r.todos))
                    ELSE TdInt(mselected)
             c   == TodoSetTo(mselected, sel)
         IN  IF r.raises # "" THEN Raise(Keep(items), r.raises)
             ELSE AddUndo([Keep(items) EXCEPT !.todos = r.todos, !.cursor = c,
                                              !.file = UpdateFile(r.todos)],
                          Entry("delete_todo", r.todos, c, 0, 0))

\* func(*args) for an entry of the history: what it returns and of which
\* type (tuple, list, int, or None)
Revert(e) ==
    CASE e.func = "lambda" ->
            [raises |-> "", type |-> "tuple", todos |-> e.todos, selected |-> e.a]
      [] e.func = "toggle" ->
            LET r == ForPositions("toggle", e.todos, e.cursor.positions)
            IN  [raises |-> r.raises, type |-> "list", todos |-> r.todos, selected |-> 0]
      [] e.func = "reset_todos" ->
            [raises |-> "", type |-> "list", todos |-> e.todos, selected |-> 0]
      [] e.func = "delete_todo" ->
            LET r == DeleteTodo(e.todos, e.cursor)
            IN  [raises |-> r.raises, type |-> "tuple", todos |-> r.todos,
                 selected |-> TdInt(r.cursor)]
      [] e.func = "todo_up" ->
            [raises |-> "", type |-> "tuple", todos |-> TodoUp(e.todos, e.a).todos,
             selected |-> TodoUp(e.todos, e.a).selected]
      [] e.func = "todo_down" ->
            [raises |-> "", type |-> "tuple", todos |-> TodoDown(e.todos, e.a).todos,
             selected |-> TodoDown(e.todos, e.a).selected]
      [] e.func = "cursor_to" ->
            [raises |-> "", type |-> "int", todos |-> <<>>,
             selected |-> Clamp(e.a, 0, e.b)]
      [] e.func = "toggle_todo_note" ->
            LET r == ForPositions("note", e.todos, e.cursor.positions)
            IN  [raises |-> r.raises, type |-> "None", todos |-> <<>>, selected |-> 0]

\* main, key u: handle_return(history.undo, todos, int(selected)), then
\* todo_set_to and update_file
OnU(items) ==
    IF mindex < 0
    THEN [Keep(items) EXCEPT !.cursor = TodoSetTo(mselected, TdInt(mselected)),
                             !.file = UpdateFile(items)]
    ELSE LET r    == Revert(mhistory[mindex + 1])
             back == IF r.type \in {"tuple", "list"} THEN r.todos ELSE items
             sel  == IF r.type \in {"tuple", "int"} THEN r.selected
                     ELSE TdInt(mselected)
         IN  IF r.raises # ""
             THEN Raise([Keep(items) EXCEPT !.index = mindex - 1], r.raises)
             ELSE [Keep(items) EXCEPT !.index = mindex - 1,
                                      !.todos = back,
                                      !.cursor = TodoSetTo(mselected, sel),
                                      !.file = UpdateFile(back)]

\* main, key q: quit_program(todos)
OnQ(items) ==
    LET kept == IF IsFileExternallyUpdated(file, items)
                THEN ValidateFile(file).todos
                ELSE items
    IN  [Keep(items) EXCEPT !.todos = kept, !.file = UpdateFile(kept),
                            !.status = "quit"]

\* all sequences over lines of length at most n
RECURSIVE LineLists(_, _)
LineLists(lines, n) ==
    IF n = 0 THEN {<<>>}
    ELSE LET shorter == LineLists(lines, n - 1)
         IN  shorter \cup {Append(l, x) : l \in shorter, x \in lines}

\* main before the loop: todos = validate_file(read_file(FILENAME)),
\* selected = Cursor(0), history = UndoRedo(), copied_todo = Todo("- placeholder")
InitMain ==
    /\ \E lines \in LineLists(FileLines, MaxFileLines) : file = Join(<<NL>>, lines)
    /\ mtodos = ValidateFile(file).todos
    /\ mselected = TdNewCursor(0)
    /\ mhistory = <<>>
    /\ mindex = -1
    /\ copied_todo = Placeholder
    /\ pyperclip \in BOOLEAN
    /\ clipboard \in (IF pyperclip THEN ClipTexts ELSE {<<>>})
    /\ mstatus = "running"
    /\ mkeys = <<>>
    /\ mbefore = <<>>
    /\ mtyped = NoTyped
    /\ check = [made |-> FALSE, text |-> <<>>, written |-> <<>>, lines |-> <<>>,
                updated |-> FALSE]
    /\ turns = 0
    /\ CodecIdle /\ CursorIdle /\ HistIdle /\ WinIdle /\ SortIdle
    /\ ChunkIdle

\* the handler of a key
OnKey(key, typed, items) ==
    CASE key = "d" -> OnD(items)
      [] key = "enter" -> OnEnter(items)
      [] key = "tab" -> OnIndent("indent", items)
      [] key = "shift+tab" -> OnIndent("dedent", items)
      [] key = "i" -> OnI(items, typed)
      [] key = "-" -> OnMinus(items)
      [] key = "alt+j" -> OnAltJ(items)
      [] key = "alt+k" -> OnAltK(items)
      [] key = "k" -> OnMove(-1, items)
      [] key = "j" -> OnMove(1, items)
      [] key = "K" -> [Keep(items) EXCEPT !.cursor = TdMultiselectUp(mselected)]
      [] key = "J" -> [Keep(items) EXCEPT
                          !.cursor = TdMultiselectDown(mselected, Len(items))]
      [] key = "delete" -> OnDelete(items)
      [] key = "y" -> OnY(items)
      [] key = "p" -> OnP(items)
      [] key = "u" -> OnU(items)
      [] key = "q" -> OnQ(items)
      [] key = "o" -> OnO(items, typed)
      [] key = "O" -> OnShiftO(items, typed)
      [] key = "/" -> [Keep(items) EXCEPT !.cursor = Search(items, mselected, typed)]

\* one turn of the loop of main: the check of the storage file, the reload,
\* and the handler of the key read
Turn(key, typed) ==
    /\ mstatus = "running"
    /\ turns < MaxTurns
    /\ turns' = turns + 1
    /\ \E loaded \in {ValidateFile(file)} :
       \E updated \in {IsFileExternallyUpdated(file, mtodos)} :
       \E items \in {IF updated THEN loaded.todos ELSE mtodos} :
           /\ mkeys' = LastTwo(Append(mkeys, key))
           /\ mtyped' = typed
           /\ mbefore' = LastTwo(Append(mbefore,
                             [lines |-> Lines(items),
                              positions |-> mselected.positions]))
           /\ IF loaded.raises # ""
              THEN /\ mstatus' = loaded.raises
                   /\ check' = [made |-> FALSE, text |-> file,
                                written |-> UpdateFile(mtodos),
                                lines |-> Lines(mtodos), updated |-> FALSE]
                   /\ UNCHANGED <<file, mtodos, mselected, mhistory, mindex,
                                  copied_todo, clipboard>>
              ELSE \E out \in {OnKey(key, typed, items)} :
                   /\ Len(out.history) <= MaxUndos
                   /\ Len(out.todos) <= MaxTodos
                   /\ \A i \in 1..Len(out.todos) :
                          out.todos[i].indent_level <= MaxIndent
                   /\ \A i \in 1..Len(out.cursor.positions) :
                          out.cursor.positions[i] >= -MaxBelow
                   /\ check' = [made |-> TRUE, text |-> file,
                                written |-> UpdateFile(mtodos),
                                lines |-> Lines(mtodos), updated |-> updated]
                   /\ mstatus' = IF out.raises # "" THEN out.raises ELSE out.status
                   /\ file' = out.file
                   /\ mtodos' = out.todos
                   /\ mselected' = out.cursor
                   /\ mhistory' = out.history
                   /\ mindex' = out.index
                   /\ copied_todo' = out.copied
                   /\ clipboard' = out.clipboard
    /\ UNCHANGED pyperclip
    /\ MainOnly

\* the keys main has a branch for, as getch() returns them
Keys ==
    {"d", "enter", "tab", "shift+tab", "i", "-", "alt+j", "alt+k", "k", "j",
     "K", "J", "delete", "y", "p", "u", "q", "o", "O", "/"}

\* stdscr.getch() returns a key, and the prompt of i, o, O or / returns what
\* was typed
GetKey ==
    \E key \in Keys :
    \E typed \in (IF key \in {"i", "o", "O"}
                 THEN EditInputs
                 ELSE IF key = "/" THEN SearchInputs
                 ELSE {NoTyped}) :
        Turn(key, typed)

\* another program writes the storage file while main waits for a key
ExternalWrite ==
    /\ mstatus = "running"
    /\ turns < MaxTurns
    /\ turns' = turns + 1
    /\ file' \in ExternalTexts
    /\ file' # file
    /\ mkeys' = LastTwo(Append(mkeys, "external"))
    /\ mtyped' = NoTyped
    /\ mbefore' = LastTwo(Append(mbefore,
                      [lines |-> Lines(mtodos), positions |-> mselected.positions]))
    /\ UNCHANGED <<mtodos, mselected, mhistory, mindex, copied_todo, pyperclip,
                   clipboard, mstatus, check>>
    /\ MainOnly

MainNext ==
    \/ GetKey
    \/ ExternalWrite

SpecMain == InitMain /\ [][MainNext]_vars

\* C13: for every list a session reaches, validate_file of the text that
\* update_file writes for it raises nothing and gives as many items, in the
\* same order, each with the same repr().
C13_ListRoundTrip ==
    (mstatus = "running") =>
        /\ ValidateFile(UpdateFile(mtodos)).raises = ""
        /\ Lines(ValidateFile(UpdateFile(mtodos)).todos) = Lines(mtodos)

\* C15: is_file_externally_updated returns False when the file holds the
\* text update_file writes for the list in memory, and True when the items
\* decoded from the file differ from the list in memory; the loop reloads
\* the list exactly when it returns True.
C15_ExternalChangeByContent ==
    check.made =>
        /\ (check.text = check.written) => ~check.updated
        /\ (Lines(ValidateFile(check.text).todos) # check.lines) => check.updated

\* the commands of the main loop that record an undo step and change the
\* list: delete, toggle, indent, dedent, edit, insert blank, move down, move up
RecordedCommands == {"d", "enter", "tab", "shift+tab", "i", "-", "alt+j", "alt+k"}

\* the list a key found was not empty and every selected position lay in it
FoundValid(found) ==
    /\ found.lines # <<>>
    /\ \A i \in 1..Len(found.positions) :
           0 <= found.positions[i] /\ found.positions[i] < Len(found.lines)

\* C16: a recorded command on a non-empty list with a valid cursor, followed
\* by the key u, leaves a list whose lines are those the command found.
C16_UndoRestores ==
    (/\ Len(mkeys) = 2
     /\ mkeys[2] = "u"
     /\ mkeys[1] \in RecordedCommands
     /\ FoundValid(mbefore[1])) =>
        /\ mstatus = "running"
        /\ Lines(mtodos) = mbefore[1].lines

\* the key handled last, "" before the first
LastKey == IF mkeys = <<>> THEN "" ELSE mkeys[Len(mkeys)]

\* C12: without pyperclip, copy (y) and paste (p) neither raise nor exit,
\* and y followed by p inserts one item at the cursor index + 1 whose line
\* is the line the first selected item had when it was copied, the other
\* items keeping their order.
C12_ClipboardAbsenceDegrades ==
    /\ (/\ ~pyperclip
        /\ LastKey \in {"y", "p"}
        /\ FoundValid(mbefore[Len(mbefore)])) =>
           mstatus = "running"
    /\ (/\ ~pyperclip
        /\ mkeys = <<"y", "p">>
        /\ FoundValid(mbefore[1])
        /\ FoundValid(mbefore[2])) =>
           Lines(mtodos) =
               ListInsert(mbefore[2].lines, mbefore[2].positions[1] + 1,
                          mbefore[1].lines[mbefore[1].positions[1] + 1])

\* C21: after the key d (delete_todo) on a non-empty list with a valid
\* selection, when the list left is not empty the cursor index lies in it.
C21_CursorValidAfterDelete ==
    (/\ LastKey = "d"
     /\ FoundValid(mbefore[Len(mbefore)])
     /\ mstatus = "running"
     /\ mtodos # <<>>) =>
        /\ 0 <= TdInt(mselected)
        /\ TdInt(mselected) < Len(mtodos)

\* the sequence s without its elements at the 0-based indices a..b-1
WithoutRange(s, a, b) ==
    LET keep == {i \in 1..Len(s) : ~(a <= i - 1 /\ i - 1 < b)}
    IN  [k \in 1..Cardinality(keep) |->
            s[CHOOSE i \in keep : Cardinality({j \in keep : j < i}) = k - 1]]

\* C22: get_deletable() has one element per selected position, each equal
\* to start, and the key d on a selection [start, stop) with stop <= len(L)
\* leaves L without the items at start..stop-1, the others in their order.
C22_DeleteRemovesSelection ==
    LastKey = "d" =>
        LET found == mbefore[Len(mbefore)]
            start == SeqMin(found.positions)
            stop  == SeqMax(found.positions) + 1
            deletable == TdGetDeletable([positions |-> found.positions])
        IN  /\ Len(deletable) = stop - start
            /\ \A i \in 1..Len(deletable) : deletable[i] = start
            /\ stop <= Len(found.lines) =>
                   /\ mstatus = "running"
                   /\ Lines(mtodos) = WithoutRange(found.lines, start, stop)

\* C23: a new-item prompt (o or O) on a non-empty list with a valid cursor
\* that inserted nothing, followed by the key u, leaves the lines the prompt
\* found.
C23_UndoOfNothing ==
    (/\ Len(mkeys) = 2
     /\ mkeys[1] \in {"o", "O"}
     /\ mkeys[2] = "u"
     /\ FoundValid(mbefore[1])
     /\ mbefore[2].lines = mbefore[1].lines) =>
        /\ mstatus = "running"
        /\ Lines(mtodos) = mbefore[1].lines

\* C24: what undo() or redo() returns has as many items as the list add()
\* recorded at that position, with the same texts in the same order, and
\* the same selected index.
C24_SnapshotFidelity ==
    (lastcall \in {"undo", "redo"} /\ raised = "") =>
        LET was == recorded[index + 1]
        IN  /\ Len(returned.todos) = Len(was.todos)
            /\ \A i \in 1..Len(was.todos) :
                   i <= Len(returned.todos) =>
                       returned.todos[i].text = was.todos[i].text
            /\ returned.selected = was.selected

\* C33: the search moves the cursor to the smallest index at or after the
\* start of the selection whose display_text contains the string typed and
\* makes the selection that one index; with no such index it is set to 0.
C33_SearchResult ==
    (LastKey = "/" /\ mstatus = "running") =>
        LET start == SeqMin(mbefore[Len(mbefore)].positions)
            sequence == IF mtyped.cancel THEN <<>> ELSE mtyped.chars
            hits == {i \in 0..(Len(mtodos) - 1) :
                        /\ i >= start
                        /\ Contains(sequence, mtodos[i + 1].display_text)}
        IN  mselected.positions =
                <<IF hits = {} THEN 0
                  ELSE CHOOSE i \in hits : \A j \in hits : i <= j>>

\* the positions are indices of a list of n items
ValidPositions(positions, n) ==
    \A i \in 1..Len(positions) : 0 <= positions[i] /\ positions[i] < n

\* C38: when the storage file is written from outside between two keys,
\* with the cursor on indices of the list, and the loop reloads the list,
\* the cursor the next key finds is on indices of the reloaded list, unless
\* that list is empty.
C38_CursorValidAfterReload ==
    (/\ Len(mkeys) = 2
     /\ mkeys[1] = "external"
     /\ mkeys[2] # "external"
     /\ check.made
     /\ check.updated
     /\ ValidPositions(mbefore[1].positions, Len(mbefore[1].lines))
     /\ mbefore[2].lines # <<>>) =>
        ValidPositions(mbefore[2].positions, Len(mbefore[2].lines))

----------------------------------------------------------------------------
(* Specification of the message chunks: the generator _chunk_message is    *)
(* run to its end, as alert_menu does, on a message of letters and blanks  *)
(* for a width of at least 1; a step is one pass through its loop.         *)

ChunkOnly == UNCHANGED <<codecVars, cursorVars, histVars, winVars, sortVars,
                         mainVars>>

\* _chunk_message(message, width), up to the loop
InitChunk ==
    /\ message \in StringsUpTo({"a", " "}, MaxMessage)
    /\ width \in 1..MaxWidth
    /\ left = 0
    /\ right = width + 1
    /\ chunk = <<>>
    /\ kpc = "loop"
    /\ CodecIdle /\ CursorIdle /\ HistIdle /\ WinIdle /\ SortIdle /\ MainIdle

\* one pass through the body of "while True"
Iterate ==
    /\ kpc = "loop"
    /\ right' = IF right - 1 < Len(message) /\ right - 1 >= -Len(message)
                   /\ Item(message, right - 1) = " "
                THEN right - 1 + width
                ELSE right - 1
    /\ IF right - 1 >= Len(message)
       THEN /\ chunk' = PySlice(message, left, Len(message))
            /\ kpc' = "done"
            /\ left' = left
       ELSE IF IndexError(message, right - 1)
       THEN /\ kpc' = "raised"
            /\ UNCHANGED <<left, chunk>>
       ELSE IF Item(message, right - 1) = " "
       THEN /\ chunk' = PySlice(message, left, right - 1)
            /\ left' = right
            /\ kpc' = kpc
       ELSE IF right - 1 = left
       THEN /\ chunk' = PySlice(message, left, left + width)
            /\ UNCHANGED <<left, kpc>>
       ELSE UNCHANGED <<left, chunk, kpc>>
    /\ UNCHANGED <<message, width>>
    /\ ChunkOnly

ChunkNext == Iterate

\* the generator is run until it ends
SpecChunk == InitChunk /\ [][ChunkNext]_vars /\ WF_vars(ChunkNext)

\* C40: for every message and every width >= 1 the generator yields
\* finitely many chunks and ends without raising.
C40_ChunkingTerminates == <>(kpc = "done")

====
